---- MODULE Spec2Model ----
(***************************************************************************)
(* Model of the faye-redis-ng engine: several engine processes share one   *)
(* Redis store.  Every engine operation is an asynchronous sequence of     *)
(* Redis commands; one action of the model is one command executing at the *)
(* store together with the local code that runs on its reply, up to the    *)
(* point where the next command is issued.                                 *)
(***************************************************************************)
EXTENDS Integers, Sequences, FiniteSets, Bags, TLC

(* ------------------------------ bounds --------------------------------- *)

NumProcs == 2

MaxTasks == 3

MaxOps == 3

StartTime == 1000000

MaxInstant == 3

Procs == 1..NumProcs

Slots == 1..MaxTasks

ClientIds == {"c1", "c2"}

Channels == {"/a", "/b"}

(* -------------------------- program constants -------------------------- *)

LOCK_TIMEOUT == 120

ServerTimeout == 45

\* reply of GET on a missing key (null)
NoLock == -1

\* reply of ZSCORE for a missing member (null)
Absent == -1

\* a this._server.timeout for which typeof timeout !== 'number'
NotANumber == -1

\* a cutoff computed from a timeout that is not a number (NaN)
NaN == -2

NoTask == 0

NoClient == ""

NoChannel == ""

\* the channels of the subscription connection
MessageChannel == "/notifications/messages"

CloseChannel == "/notifications/close"

\* a process after _initializeClients has run to its end: both connections
\* are ready, both channels are subscribed and the gate is open
Established ==
  [redis |-> "ready", subscriber |-> "ready", initialized |-> TRUE,
   subscriptionsSetUp |-> TRUE, pc |-> "done", ready |-> "done",
   subscribed |-> {MessageChannel, CloseChannel},
   retries |-> 0, delay |-> 0]

\* a process after its constructor: _initializeClients has been called and
\* has not connected yet
Constructed ==
  [redis |-> "closed", subscriber |-> "closed", initialized |-> FALSE,
   subscriptionsSetUp |-> FALSE, pc |-> "connectRedis", ready |-> "done",
   subscribed |-> {},
   retries |-> 0, delay |-> 0]

\* the value of new Error('Max reconnection attempts reached')
Error == -1

VARIABLES
  now,             \* new Date().getTime(), in milliseconds
  timeout,         \* this._server.timeout of every process, in seconds
  clients,         \* sorted set  ns/clients : client id -> score
  clientChannels,  \* sets        ns/clients/<id>/channels
  channelClients,  \* sets        ns/channels<channel>
  messages,        \* lists       ns/clients/<id>/messages
  lock,            \* string key  ns/locks/gc
  tasks,           \* the operations in flight, one record per slot
  ops,             \* number of operations started so far
  events,          \* bag of the events handed to this._server.trigger
  callbacks,       \* bag of the completion callbacks invoked
  lockWriter,      \* history: who wrote the current lock record
  steals,          \* history: outcome of the steal attempts per observed value
  abstains,        \* history: the reasons for which gc attempts abstained
  owners,          \* history: create callbacks per id since it was last removed
  notifications,   \* bag of the messages in flight on ns/notifications/messages
  delivered,       \* bag of the calls made to this._server.deliver
  conn             \* the connections and the ready gate of every process

storeVars == <<clients, clientChannels, channelClients, messages, lock>>

lockHist == <<lockWriter, steals, abstains>>

histVars == <<events, callbacks, lockWriter, steals, abstains, owners>>

busVars == <<notifications, delivered>>

vars == <<now, timeout, clients, clientChannels, channelClients, messages,
          lock, tasks, ops, events, callbacks, lockWriter, steals, abstains,
          owners, notifications, delivered, conn>>

(* ------------------------------ helpers -------------------------------- *)

\* slot s holds an operation of process ProcOf(s)
ProcOf(s) == ((s - 1) % NumProcs) + 1

Idle ==
  [op |-> "idle", pc |-> "idle", client |-> NoClient, channel |-> NoChannel,
   time |-> 0, seen |-> NoLock, cutoff |-> 0, heldAtCall |-> FALSE,
   cands |-> {}, sub |-> <<>>, retried |-> FALSE, probe |-> FALSE,
   late |-> FALSE, message |-> <<>>, channels |-> {}, targets |-> <<>>,
   seq |-> 0, first |-> ""]

\* the free slots of process p
Free(p) == {s \in Slots : ProcOf(s) = p /\ tasks[s].op = "idle"}

Lowest(S) == CHOOSE s \in S : \A r \in S : s <= r

RECURSIVE SetToSeq(_)
SetToSeq(S) ==
  IF S = {} THEN <<>>
  ELSE LET x == CHOOSE y \in S : TRUE IN <<x>> \o SetToSeq(S \ {x})

Range(f) == {f[i] : i \in DOMAIN f}

AddEvent(bag, e) == bag (+) SetToBag({e})

RECURSIVE AddEvents(_, _)
AddEvents(bag, es) ==
  IF es = <<>> THEN bag ELSE AddEvents(AddEvent(bag, Head(es)), Tail(es))

Count(bag, e) == CopiesIn(e, bag)

\* the clients for which destroyClient has invoked its callback
Destroyed == {c \in ClientIds :
                Count(callbacks, <<"destroyClient", c, NoChannel>>) >= 1}

NewTask(o, c, ch, firstPc) ==
  [Idle EXCEPT !.op = o, !.pc = firstPc, !.client = c, !.channel = ch]

\* a call of process p starts: its first command is issued
\* a call that finds the gate closed waits in _waitForInit
Gated(p, task) ==
  IF conn[p].initialized THEN task
  ELSE [task EXCEPT !.pc = "waitForInit", !.first = task.pc, !.seq = 0]

Start(p, task) ==
  /\ ops < MaxOps
  /\ Free(p) # {}
  /\ tasks' = [tasks EXCEPT ![Lowest(Free(p))] = Gated(p, task)]
  /\ ops' = ops + 1

(* ------------------------------- time ---------------------------------- *)

\* the clock is read at the instants 0, 1, L, L + 1, 2L, 2L + 1, ... after
\* StartTime, where L is the length of the lock timeout in milliseconds
LongStep == LOCK_TIMEOUT * 1000

Instant(i) == (i \div 2) * LongStep + (i % 2)

InstantOf(time) ==
  2 * ((time - StartTime) \div LongStep) + ((time - StartTime) % LongStep)

Tick ==
  /\ InstantOf(now) < MaxInstant
  /\ now' = StartTime + Instant(InstantOf(now) + 1)
  /\ UNCHANGED <<timeout, tasks, ops>>
  /\ UNCHANGED storeVars
  /\ UNCHANGED histVars
  /\ UNCHANGED busVars
  /\ UNCHANGED conn

(* --------------------------- _withLock / gc ---------------------------- *)

\* const expiry = currentTime + this.LOCK_TIMEOUT * 1000 + 1
Expiry(task) == task.time + LOCK_TIMEOUT * 1000 + 1

\* releaseLock: the DEL is issued only while the expiry has not passed
releaseLock(task) ==
  IF now < Expiry(task) THEN [task EXCEPT !.pc = "del"] ELSE Idle

\* a call returns before it issues a command
Return ==
  /\ ops < MaxOps
  /\ ops' = ops + 1
  /\ UNCHANGED tasks

InSweep(task) == task.op = "gc" /\ task.pc \in {"zRangeByScore", "sweeping"}

\* EnterSweep with a cutoff that no session is older than
EnterSweep_never(s, task) ==
  [task EXCEPT !.pc = "zRangeByScore", !.cutoff = 0]

\* the gc callback starts: const cutoff = now - 1000 * 2 * timeout
EnterSweep(s, task) ==
  [task EXCEPT !.pc = "zRangeByScore",
               !.cutoff = now - 1000 * 2 * timeout[ProcOf(s)]]

\* gc without the check of this._server.timeout
gc_unchecked(p) ==
  /\ Start(p, [NewTask("gc", NoClient, NoChannel, "setNX")
                 EXCEPT !.time = now,
                        !.heldAtCall = (lock # NoLock /\ now < lock)])
  /\ UNCHANGED <<now, timeout>>
  /\ UNCHANGED storeVars
  /\ UNCHANGED histVars
  /\ UNCHANGED busVars
  /\ UNCHANGED conn

gc(p) ==
  /\ IF timeout[p] = NotANumber
     THEN Return
     ELSE Start(p, [NewTask("gc", NoClient, NoChannel, "setNX")
                      EXCEPT !.time = now,
                             !.heldAtCall = (lock # NoLock /\ now < lock)])
  /\ UNCHANGED <<now, timeout>>
  /\ UNCHANGED storeVars
  /\ UNCHANGED histVars
  /\ UNCHANGED busVars
  /\ UNCHANGED conn

\* withLock_setNX with a SETNX that never sets the key
withLock_setNX_lost(t) ==
  /\ tasks[t].op = "gc" /\ tasks[t].pc = "setNX"
  /\ tasks' = [tasks EXCEPT ![t].pc = "get"]
  /\ UNCHANGED <<lock, lockWriter>>
  /\ UNCHANGED <<now, timeout, ops, clients, clientChannels, channelClients,
                 messages, events, callbacks, steals, abstains, owners>>
  /\ UNCHANGED busVars
  /\ UNCHANGED conn

withLock_setNX(t) ==
  /\ tasks[t].op = "gc" /\ tasks[t].pc = "setNX"
  /\ IF lock = NoLock
     THEN /\ lock' = Expiry(tasks[t])
          /\ lockWriter' = [proc |-> ProcOf(t), won |-> TRUE]
          /\ tasks' = [tasks EXCEPT ![t] = EnterSweep(t, @)]
     ELSE /\ tasks' = [tasks EXCEPT ![t].pc = "get"]
          /\ UNCHANGED <<lock, lockWriter>>
  /\ UNCHANGED <<now, timeout, ops, clients, clientChannels, channelClients,
                 messages, events, callbacks, steals, abstains, owners>>
  /\ UNCHANGED busVars
  /\ UNCHANGED conn

\* withLock_get without the return on an expiry that has not passed
withLock_get_unchecked(t) ==
  /\ tasks[t].op = "gc" /\ tasks[t].pc = "get"
  /\ tasks' = [tasks EXCEPT ![t] =
                 IF lock = NoLock THEN Idle
                 ELSE [@ EXCEPT !.pc = "set", !.seen = lock]]
  /\ abstains' = IF lock = NoLock THEN abstains \cup {"vanished"}
                 ELSE IF tasks[t].time < lock THEN abstains \cup {"held"}
                 ELSE abstains
  /\ UNCHANGED <<now, timeout, ops, events, callbacks, lockWriter, steals,
                 owners>>
  /\ UNCHANGED storeVars
  /\ UNCHANGED busVars
  /\ UNCHANGED conn

withLock_get(t) ==
  /\ tasks[t].op = "gc" /\ tasks[t].pc = "get"
  /\ tasks' = [tasks EXCEPT ![t] =
                 IF lock = NoLock THEN Idle
                 ELSE IF @.time < lock THEN Idle
                 ELSE [@ EXCEPT !.pc = "set", !.seen = lock]]
  /\ abstains' = IF lock = NoLock THEN abstains \cup {"vanished"}
                 ELSE IF tasks[t].time < lock THEN abstains \cup {"held"}
                 ELSE abstains
  /\ UNCHANGED <<now, timeout, ops, events, callbacks, lockWriter, steals,
                 owners>>
  /\ UNCHANGED storeVars
  /\ UNCHANGED busVars
  /\ UNCHANGED conn

StealEntry(v) ==
  IF v \in DOMAIN steals THEN steals[v] ELSE [procs |-> {}, wins |-> 0]

withLock_set(t) ==
  /\ tasks[t].op = "gc" /\ tasks[t].pc = "set"
  /\ LET oldValue == lock
         won == oldValue = tasks[t].seen
         v == tasks[t].seen
     IN /\ lock' = Expiry(tasks[t])
        /\ lockWriter' = [proc |-> ProcOf(t), won |-> won]
        /\ tasks' = [tasks EXCEPT ![t] = IF won THEN EnterSweep(t, @) ELSE Idle]
        /\ steals' = [x \in DOMAIN steals \cup {v} |->
                        IF x = v
                        THEN [procs |-> StealEntry(v).procs \cup {ProcOf(t)},
                              wins |-> StealEntry(v).wins
                                         + (IF won THEN 1 ELSE 0)]
                        ELSE steals[x]]
        /\ abstains' = IF won THEN abstains ELSE abstains \cup {"lost"}
  /\ UNCHANGED <<now, timeout, ops, clients, clientChannels, channelClients,
                 messages, events, callbacks, owners>>
  /\ UNCHANGED busVars
  /\ UNCHANGED conn

\* ZRANGEBYSCORE ns/clients 0 cutoff
Stale(cutoff) == {c \in ClientIds : clients[c] >= 0 /\ clients[c] <= cutoff}

\* a destroyClient call that has issued its SMEMBERS
DestroyCall == [pc |-> "sMembers", chans |-> <<>>]

gc_zRangeByScore(t) ==
  /\ tasks[t].op = "gc" /\ tasks[t].pc = "zRangeByScore"
  /\ LET K == Stale(tasks[t].cutoff)
     IN tasks' = [tasks EXCEPT ![t] =
                    IF K = {} THEN releaseLock(@)
                    ELSE [@ EXCEPT !.pc = "sweeping", !.cands = K,
                                   !.sub = [c \in K |-> DestroyCall]]]
  /\ UNCHANGED <<now, timeout, ops>>
  /\ UNCHANGED storeVars
  /\ UNCHANGED histVars
  /\ UNCHANGED busVars
  /\ UNCHANGED conn

releaseLock_del(t) ==
  /\ tasks[t].op = "gc" /\ tasks[t].pc = "del"
  /\ lock' = NoLock
  /\ lockWriter' = [proc |-> 0, won |-> FALSE]
  /\ tasks' = [tasks EXCEPT ![t] = Idle]
  /\ UNCHANGED <<now, timeout, ops, clients, clientChannels, channelClients,
                 messages, events, callbacks, steals, abstains, owners>>
  /\ UNCHANGED busVars
  /\ UNCHANGED conn

(* --------------------------- destroyClient ----------------------------- *)

\* replies of the MULTI batch of destroyClient, in the order the commands
\* were queued: ZADD, then SREM forward / SREM reverse per channel, then
\* DEL, ZREM, PUBLISH
RECURSIVE SRemReplies(_, _)
SRemReplies(c, chans) ==
  IF chans = <<>> THEN <<>>
  ELSE <<IF Head(chans) \in clientChannels[c] THEN 1 ELSE 0,
         IF c \in channelClients[Head(chans)] THEN 1 ELSE 0>>
       \o SRemReplies(c, Tail(chans))

Results(c, chans) ==
  <<IF clients[c] = Absent THEN 1 ELSE 0>>
  \o SRemReplies(c, chans)
  \o <<IF messages[c] # <<>> THEN 1 ELSE 0, 1, 0>>

\* results[k] with the 0-based index of the source
At0(results, k) == results[k + 1]

\* UnsubscribeEvents of a destroyClient that triggers no 'unsubscribe'
UnsubscribeEvents_none(c, chans, results, i) == <<>>

\* channels.forEach((channel, i) => { if (results[2 * i + 1] !== 1) return; ... })
RECURSIVE UnsubscribeEvents(_, _, _, _)
UnsubscribeEvents(c, chans, results, i) ==
  IF i >= Len(chans) THEN <<>>
  ELSE (IF At0(results, 2 * i + 1) # 1 THEN <<>>
        ELSE << <<"unsubscribe", c, chans[i + 1]>> >>)
       \o UnsubscribeEvents(c, chans, results, i + 1)

destroyClient(p, c) ==
  /\ Start(p, [NewTask("destroyClient", c, NoChannel, "destroying")
                 EXCEPT !.sub = [x \in {c} |-> DestroyCall]])
  /\ UNCHANGED <<now, timeout>>
  /\ UNCHANGED storeVars
  /\ UNCHANGED histVars
  /\ UNCHANGED busVars
  /\ UNCHANGED conn

\* the destroyClient calls in flight in slot t: the call itself, or the
\* calls a sweep has made for its stale clients
Destroying(t) ==
  IF tasks[t].op \in {"destroyClient", "gc"} THEN DOMAIN tasks[t].sub ELSE {}

destroyClient_sMembers(t, c) ==
  /\ c \in Destroying(t)
  /\ tasks[t].sub[c].pc = "sMembers"
  /\ tasks' = [tasks EXCEPT ![t].sub[c] =
                 [pc |-> "exec", chans |-> SetToSeq(clientChannels[c])]]
  /\ UNCHANGED <<now, timeout, ops>>
  /\ UNCHANGED storeVars
  /\ UNCHANGED histVars
  /\ UNCHANGED busVars
  /\ UNCHANGED conn

\* Completed with a gc callback that releases the lock after the first
\* destroy
Completed_first(task, c) ==
  IF task.op = "gc"
  THEN releaseLock([task EXCEPT !.sub = [x \in {} |-> DestroyCall]])
  ELSE Idle

\* the completion callback of destroyClient: the caller's, or the one gc
\* passes, which releases the lock after the last destroy
Completed(task, c) ==
  LET rest == [x \in DOMAIN task.sub \ {c} |-> task.sub[x]]
  IN IF task.op = "gc"
     THEN IF DOMAIN rest = {}
          THEN releaseLock([task EXCEPT !.sub = rest])
          ELSE [task EXCEPT !.sub = rest]
     ELSE Idle

\* destroyClient_exec with a batch that leaves the queue in place
destroyClient_exec_kept(t, c) ==
  /\ c \in Destroying(t)
  /\ tasks[t].sub[c].pc = "exec"
  /\ LET chans == tasks[t].sub[c].chans
         results == Results(c, chans)
     IN /\ clients' = [clients EXCEPT ![c] = Absent]
        /\ clientChannels' = [clientChannels EXCEPT ![c] = @ \ Range(chans)]
        /\ channelClients' = [ch \in Channels |->
                                IF ch \in Range(chans)
                                THEN channelClients[ch] \ {c}
                                ELSE channelClients[ch]]
        /\ UNCHANGED messages
        /\ events' = AddEvent(AddEvents(events,
                                UnsubscribeEvents(c, chans, results, 0)),
                              <<"disconnect", c, NoChannel>>)
        /\ callbacks' = AddEvent(callbacks, <<"destroyClient", c, NoChannel>>)
        /\ owners' = [owners EXCEPT ![c] = 0]
        /\ tasks' = [tasks EXCEPT ![t] = Completed(@, c)]
  /\ UNCHANGED <<now, timeout, ops, lock>>
  /\ UNCHANGED lockHist
  /\ UNCHANGED busVars
  /\ UNCHANGED conn

destroyClient_exec(t, c) ==
  /\ c \in Destroying(t)
  /\ tasks[t].sub[c].pc = "exec"
  /\ LET chans == tasks[t].sub[c].chans
         results == Results(c, chans)
     IN /\ clients' = [clients EXCEPT ![c] = Absent]
        /\ clientChannels' = [clientChannels EXCEPT ![c] = @ \ Range(chans)]
        /\ channelClients' = [ch \in Channels |->
                                IF ch \in Range(chans)
                                THEN channelClients[ch] \ {c}
                                ELSE channelClients[ch]]
        /\ messages' = [messages EXCEPT ![c] = <<>>]
        /\ events' = AddEvent(AddEvents(events,
                                UnsubscribeEvents(c, chans, results, 0)),
                              <<"disconnect", c, NoChannel>>)
        /\ callbacks' = AddEvent(callbacks, <<"destroyClient", c, NoChannel>>)
        /\ owners' = [owners EXCEPT ![c] = 0]
        /\ tasks' = [tasks EXCEPT ![t] = Completed(@, c)]
  /\ UNCHANGED <<now, timeout, ops, lock>>
  /\ UNCHANGED lockHist
  /\ UNCHANGED busVars
  /\ UNCHANGED conn

(* ------------------------- createClient / ping ------------------------- *)

ping(p, c) ==
  /\ IF timeout[p] = NotANumber
     THEN Return
     ELSE Start(p, [NewTask("ping", c, NoChannel, "zAdd") EXCEPT !.time = now])
  /\ UNCHANGED <<now, timeout>>
  /\ UNCHANGED storeVars
  /\ UNCHANGED histVars
  /\ UNCHANGED busVars
  /\ UNCHANGED conn

ping_zAdd(t) ==
  /\ tasks[t].op = "ping" /\ tasks[t].pc = "zAdd"
  /\ clients' = [clients EXCEPT ![tasks[t].client] = tasks[t].time]
  /\ tasks' = [tasks EXCEPT ![t] =
                 IF @.probe THEN [@ EXCEPT !.op = "clientExists",
                                           !.pc = "zScore"]
                 ELSE Idle]
  /\ UNCHANGED <<now, timeout, ops, clientChannels, channelClients, messages,
                 lock>>
  /\ UNCHANGED histVars
  /\ UNCHANGED busVars
  /\ UNCHANGED conn

(* ---------------------------- clientExists ----------------------------- *)

\* const cutoff = new Date().getTime() - (1000 * 1.6 * this._server.timeout)
Cutoff(p) ==
  IF timeout[p] = NotANumber THEN NaN ELSE now - 1600 * timeout[p]

\* score ? parseInt(score, 10) > cutoff : false
Exists(score, cutoff) ==
  IF score = Absent \/ score = 0 THEN FALSE
  ELSE IF cutoff = NaN THEN FALSE
  ELSE score > cutoff

Reply(b) == IF b THEN "true" ELSE "false"

\* late records that the call is made after a destroyClient(c) has completed
clientExists(p, c) ==
  /\ Start(p, [NewTask("clientExists", c, NoChannel, "zScore")
                 EXCEPT !.cutoff = Cutoff(p), !.late = (c \in Destroyed)])
  /\ UNCHANGED <<now, timeout>>
  /\ UNCHANGED storeVars
  /\ UNCHANGED histVars
  /\ UNCHANGED busVars
  /\ UNCHANGED conn

clientExists_zScore(t) ==
  /\ tasks[t].op = "clientExists" /\ tasks[t].pc = "zScore"
  /\ LET c == tasks[t].client
     IN callbacks' = AddEvent(callbacks,
                       <<"clientExists", c,
                         Reply(Exists(clients[c], tasks[t].cutoff))>>)
  /\ tasks' = [tasks EXCEPT ![t] = Idle]
  /\ UNCHANGED <<now, timeout, ops, events, owners>>
  /\ UNCHANGED storeVars
  /\ UNCHANGED lockHist
  /\ UNCHANGED busVars
  /\ UNCHANGED conn

(* ---------------------------- createClient ----------------------------- *)

createClient(p) ==
  /\ \E clientId \in ClientIds :
       Start(p, NewTask("createClient", clientId, NoChannel, "zAddNX"))
  /\ UNCHANGED <<now, timeout>>
  /\ UNCHANGED storeVars
  /\ UNCHANGED histVars
  /\ UNCHANGED busVars
  /\ UNCHANGED conn

\* a createClient call whose callback calls clientExists for the id it is
\* handed
createClient_thenExists(p) ==
  /\ \E clientId \in ClientIds :
       Start(p, [NewTask("createClient", clientId, NoChannel, "zAddNX")
                   EXCEPT !.probe = TRUE])
  /\ UNCHANGED <<now, timeout>>
  /\ UNCHANGED storeVars
  /\ UNCHANGED histVars
  /\ UNCHANGED busVars
  /\ UNCHANGED conn

\* the commands that follow createClient's zAdd on the connection: the zAdd
\* of ping(clientId), if the timeout is a number, and then the zScore of the
\* clientExists call that the callback makes, if it makes one
PingAfterCreate(s, task) ==
  LET after == [task EXCEPT !.cutoff = Cutoff(ProcOf(s))]
  IN IF timeout[ProcOf(s)] = NotANumber
     THEN IF task.probe
          THEN [after EXCEPT !.op = "clientExists", !.pc = "zScore"]
          ELSE Idle
     ELSE [after EXCEPT !.op = "ping", !.pc = "zAdd", !.time = now]

\* createClient_zAdd with a zAdd that lacks NX: the reply is always 1
createClient_zAdd_noNX(t) ==
  /\ tasks[t].op = "createClient" /\ tasks[t].pc = "zAddNX"
  /\ LET c == tasks[t].client
         added == 1
     IN IF added = 0
        THEN /\ \E clientId \in ClientIds :
                  tasks' = [tasks EXCEPT ![t].client = clientId,
                                         ![t].retried = TRUE]
             /\ UNCHANGED <<clients, events, callbacks, owners>>
        ELSE /\ clients' = [clients EXCEPT ![c] = 0]
             /\ events' = AddEvent(events, <<"handshake", c, NoChannel>>)
             /\ callbacks' = AddEvent(callbacks, <<"createClient", c, NoChannel>>)
             /\ owners' = [owners EXCEPT ![c] = @ + 1]
             /\ tasks' = [tasks EXCEPT ![t] = PingAfterCreate(t, tasks[t])]
  /\ UNCHANGED <<now, timeout, ops, clientChannels, channelClients, messages,
                 lock>>
  /\ UNCHANGED lockHist
  /\ UNCHANGED busVars
  /\ UNCHANGED conn

createClient_zAdd(t) ==
  /\ tasks[t].op = "createClient" /\ tasks[t].pc = "zAddNX"
  /\ LET c == tasks[t].client
         added == IF clients[c] = Absent THEN 1 ELSE 0
     IN IF added = 0
        THEN /\ \E clientId \in ClientIds :
                  tasks' = [tasks EXCEPT ![t].client = clientId,
                                         ![t].retried = TRUE]
             /\ UNCHANGED <<clients, events, callbacks, owners>>
        ELSE /\ clients' = [clients EXCEPT ![c] = 0]
             /\ events' = AddEvent(events, <<"handshake", c, NoChannel>>)
             /\ callbacks' = AddEvent(callbacks, <<"createClient", c, NoChannel>>)
             /\ owners' = [owners EXCEPT ![c] = @ + 1]
             /\ tasks' = [tasks EXCEPT ![t] = PingAfterCreate(t, tasks[t])]
  /\ UNCHANGED <<now, timeout, ops, clientChannels, channelClients, messages,
                 lock>>
  /\ UNCHANGED lockHist
  /\ UNCHANGED busVars
  /\ UNCHANGED conn

(* ----------------------- subscribe / unsubscribe ----------------------- *)

subscribe(p, c, ch) ==
  /\ Start(p, NewTask("subscribe", c, ch, "sAdd1"))
  /\ UNCHANGED <<now, timeout>>
  /\ UNCHANGED storeVars
  /\ UNCHANGED histVars
  /\ UNCHANGED busVars
  /\ UNCHANGED conn

\* subscribe_sAdd1 triggering the event whatever sAdd replied
subscribe_sAdd1_always(t) ==
  /\ tasks[t].op = "subscribe" /\ tasks[t].pc = "sAdd1"
  /\ LET c == tasks[t].client
         ch == tasks[t].channel
         added == IF ch \in clientChannels[c] THEN 0 ELSE 1
     IN /\ clientChannels' = [clientChannels EXCEPT ![c] = @ \cup {ch}]
        /\ events' = AddEvent(events, <<"subscribe", c, ch>>)
        /\ tasks' = [tasks EXCEPT ![t].pc = "sAdd2"]
  /\ UNCHANGED <<now, timeout, ops, clients, channelClients, messages, lock,
                 callbacks, owners>>
  /\ UNCHANGED lockHist
  /\ UNCHANGED busVars
  /\ UNCHANGED conn

subscribe_sAdd1(t) ==
  /\ tasks[t].op = "subscribe" /\ tasks[t].pc = "sAdd1"
  /\ LET c == tasks[t].client
         ch == tasks[t].channel
         added == IF ch \in clientChannels[c] THEN 0 ELSE 1
     IN /\ clientChannels' = [clientChannels EXCEPT ![c] = @ \cup {ch}]
        /\ events' = IF added = 1
                     THEN AddEvent(events, <<"subscribe", c, ch>>)
                     ELSE events
        /\ tasks' = [tasks EXCEPT ![t].pc = "sAdd2"]
  /\ UNCHANGED <<now, timeout, ops, clients, channelClients, messages, lock,
                 callbacks, owners>>
  /\ UNCHANGED lockHist
  /\ UNCHANGED busVars
  /\ UNCHANGED conn

subscribe_sAdd2(t) ==
  /\ tasks[t].op = "subscribe" /\ tasks[t].pc = "sAdd2"
  /\ LET c == tasks[t].client
         ch == tasks[t].channel
     IN /\ channelClients' = [channelClients EXCEPT ![ch] = @ \cup {c}]
        /\ callbacks' = AddEvent(callbacks, <<"subscribe", c, ch>>)
        /\ tasks' = [tasks EXCEPT ![t] = Idle]
  /\ UNCHANGED <<now, timeout, ops, clients, clientChannels, messages, lock,
                 events, owners>>
  /\ UNCHANGED lockHist
  /\ UNCHANGED busVars
  /\ UNCHANGED conn

unsubscribe(p, c, ch) ==
  /\ Start(p, NewTask("unsubscribe", c, ch, "sRem1"))
  /\ UNCHANGED <<now, timeout>>
  /\ UNCHANGED storeVars
  /\ UNCHANGED histVars
  /\ UNCHANGED busVars
  /\ UNCHANGED conn

\* unsubscribe_sRem1 triggering the event whatever sRem replied
unsubscribe_sRem1_always(t) ==
  /\ tasks[t].op = "unsubscribe" /\ tasks[t].pc = "sRem1"
  /\ LET c == tasks[t].client
         ch == tasks[t].channel
         removed == IF ch \in clientChannels[c] THEN 1 ELSE 0
     IN /\ clientChannels' = [clientChannels EXCEPT ![c] = @ \ {ch}]
        /\ events' = AddEvent(events, <<"unsubscribe", c, ch>>)
        /\ tasks' = [tasks EXCEPT ![t].pc = "sRem2"]
  /\ UNCHANGED <<now, timeout, ops, clients, channelClients, messages, lock,
                 callbacks, owners>>
  /\ UNCHANGED lockHist
  /\ UNCHANGED busVars
  /\ UNCHANGED conn

unsubscribe_sRem1(t) ==
  /\ tasks[t].op = "unsubscribe" /\ tasks[t].pc = "sRem1"
  /\ LET c == tasks[t].client
         ch == tasks[t].channel
         removed == IF ch \in clientChannels[c] THEN 1 ELSE 0
     IN /\ clientChannels' = [clientChannels EXCEPT ![c] = @ \ {ch}]
        /\ events' = IF removed = 1
                     THEN AddEvent(events, <<"unsubscribe", c, ch>>)
                     ELSE events
        /\ tasks' = [tasks EXCEPT ![t].pc = "sRem2"]
  /\ UNCHANGED <<now, timeout, ops, clients, channelClients, messages, lock,
                 callbacks, owners>>
  /\ UNCHANGED lockHist
  /\ UNCHANGED busVars
  /\ UNCHANGED conn

unsubscribe_sRem2(t) ==
  /\ tasks[t].op = "unsubscribe" /\ tasks[t].pc = "sRem2"
  /\ LET c == tasks[t].client
         ch == tasks[t].channel
     IN /\ channelClients' = [channelClients EXCEPT ![ch] = @ \ {c}]
        /\ callbacks' = AddEvent(callbacks, <<"unsubscribe", c, ch>>)
        /\ tasks' = [tasks EXCEPT ![t] = Idle]
  /\ UNCHANGED <<now, timeout, ops, clients, clientChannels, messages, lock,
                 events, owners>>
  /\ UNCHANGED lockHist
  /\ UNCHANGED busVars
  /\ UNCHANGED conn

(* ------------------------- publish / emptyQueue ------------------------ *)

\* the clients for which this._server.hasConnection is true in process p
Connections(p) ==
  IF p = 1 THEN {"c1", "c2"} ELSE IF p = 2 THEN {"c2"} ELSE {}

\* the message of the n-th call made to the engine, published by client c2
\* to the channels chans
Message(n, chans) ==
  [clientId |-> "c2",
   channel |-> IF "/a" \in chans THEN "/a" ELSE "/b",
   data |-> n]

\* JSON.stringify(message)
stringify(m) == <<"clientId", m.clientId, "channel", m.channel, "data", m.data>>

\* JSON.parse(json)
parse(json) == [clientId |-> json[2], channel |-> json[4], data |-> json[6]]

RECURSIVE parseAll(_)
parseAll(jsons) ==
  IF jsons = <<>> THEN <<>>
  ELSE <<parse(Head(jsons))>> \o parseAll(Tail(jsons))

\* the calls of process p that wait for the reply of a command, which the
\* connection executes in the order they were issued
Pending(p) == {s \in Slots : ProcOf(s) = p /\ tasks[s].seq > 0}

\* a command is issued on the connection of process p
Issue(p, task) == [task EXCEPT !.seq = Cardinality(Pending(p)) + 1]

\* the command of the call in slot t is the oldest on its connection
AtHead(t) == tasks[t].seq = 1

\* the reply of the command of the call in slot t arrives, and the call
\* issues its next command or ends
Reissue(t, next) ==
  [s \in Slots |->
     IF s = t
     THEN IF next.op = "idle" THEN Idle
          ELSE [next EXCEPT !.seq = Cardinality(Pending(ProcOf(t)))]
     ELSE IF ProcOf(s) = ProcOf(t) /\ tasks[s].seq > 1
          THEN [tasks[s] EXCEPT !.seq = @ - 1]
          ELSE tasks[s]]

publish(p, chans) ==
  /\ chans # {}
  /\ Start(p, Issue(p, [NewTask("publish", NoClient, NoChannel, "sUnion")
                          EXCEPT !.message = Message(ops + 1, chans),
                                 !.channels = chans]))
  /\ UNCHANGED <<now, timeout>>
  /\ UNCHANGED storeVars
  /\ UNCHANGED histVars
  /\ UNCHANGED busVars
  /\ UNCHANGED conn

\* this._server.trigger('publish', message.clientId, message.channel,
\* message.data)
PublishEvent(m) == <<"publish", m.clientId, m.channel, m.data>>

\* the loop of publish goes on with the next client, or ends
NextClient(task) ==
  IF Len(task.targets) > 1
  THEN [task EXCEPT !.pc = "rPush", !.targets = Tail(@)]
  ELSE Idle

\* the reply of an sUnion that lists the members set by set
RECURSIVE sUnionReply_concat(_)
sUnionReply_concat(chans) ==
  IF chans = {} THEN <<>>
  ELSE LET ch == CHOOSE x \in chans : TRUE
       IN SetToSeq(channelClients[ch]) \o sUnionReply_concat(chans \ {ch})

\* the reply of sUnion: the members of the union of the sets
sUnionReply(chans) == SetToSeq(UNION {channelClients[ch] : ch \in chans})

\* publish_sUnion without the event for an empty reply
publish_sUnion_silent(t) ==
  /\ tasks[t].op = "publish" /\ tasks[t].pc = "sUnion" /\ AtHead(t)
  /\ LET clientIds == sUnionReply(tasks[t].channels)
     IN IF clientIds = <<>>
        THEN /\ tasks' = Reissue(t, Idle)
             /\ UNCHANGED events
        ELSE /\ tasks' = Reissue(t, [tasks[t] EXCEPT !.pc = "rPush",
                                                     !.targets = clientIds])
             /\ UNCHANGED events
  /\ UNCHANGED <<now, timeout, ops, callbacks, owners>>
  /\ UNCHANGED storeVars
  /\ UNCHANGED lockHist
  /\ UNCHANGED busVars
  /\ UNCHANGED conn

publish_sUnion(t) ==
  /\ tasks[t].op = "publish" /\ tasks[t].pc = "sUnion" /\ AtHead(t)
  /\ LET clientIds == sUnionReply(tasks[t].channels)
     IN IF clientIds = <<>>
        THEN /\ events' = AddEvent(events, PublishEvent(tasks[t].message))
             /\ tasks' = Reissue(t, Idle)
        ELSE /\ tasks' = Reissue(t, [tasks[t] EXCEPT !.pc = "rPush",
                                                     !.targets = clientIds])
             /\ UNCHANGED events
  /\ UNCHANGED <<now, timeout, ops, callbacks, owners>>
  /\ UNCHANGED storeVars
  /\ UNCHANGED lockHist
  /\ UNCHANGED busVars
  /\ UNCHANGED conn

publish_rPush(t) ==
  /\ tasks[t].op = "publish" /\ tasks[t].pc = "rPush" /\ AtHead(t)
  /\ messages' = [messages EXCEPT ![Head(tasks[t].targets)] =
                    Append(@, stringify(tasks[t].message))]
  /\ tasks' = Reissue(t, [tasks[t] EXCEPT !.pc = "publish"])
  /\ UNCHANGED <<now, timeout, ops, clients, clientChannels, channelClients,
                 lock>>
  /\ UNCHANGED histVars
  /\ UNCHANGED busVars
  /\ UNCHANGED conn

\* the processes whose subscription connection is subscribed to channel ch
Listeners(ch) == {q \in Procs : ch \in conn[q].subscribed}

\* the notification reaches the subscriber of every process that is
\* subscribed to the message channel; the callback of clientExists is
\* awaited next
publish_publish(t) ==
  /\ tasks[t].op = "publish" /\ tasks[t].pc = "publish" /\ AtHead(t)
  /\ notifications' = notifications
                        (+) SetToBag({<<q, Head(tasks[t].targets)>> :
                                        q \in Listeners(MessageChannel)})
  /\ tasks' = Reissue(t, [tasks[t] EXCEPT !.pc = "zScore",
                                          !.cutoff = Cutoff(ProcOf(t))])
  /\ UNCHANGED <<now, timeout, ops, delivered>>
  /\ UNCHANGED storeVars
  /\ UNCHANGED histVars
  /\ UNCHANGED conn

\* publish_zScore going on with the next client whatever the reply
publish_zScore_lenient(t) ==
  /\ tasks[t].op = "publish" /\ tasks[t].pc = "zScore" /\ AtHead(t)
  /\ LET next == NextClient(tasks[t])
     IN /\ tasks' = Reissue(t, next)
        /\ events' = IF next.op = "idle"
                      THEN AddEvent(events, PublishEvent(tasks[t].message))
                      ELSE events
  /\ UNCHANGED <<now, timeout, ops, callbacks, owners>>
  /\ UNCHANGED storeVars
  /\ UNCHANGED lockHist
  /\ UNCHANGED busVars
  /\ UNCHANGED conn

publish_zScore(t) ==
  /\ tasks[t].op = "publish" /\ tasks[t].pc = "zScore" /\ AtHead(t)
  /\ LET c == Head(tasks[t].targets)
         exists == Exists(clients[c], tasks[t].cutoff)
         next == IF exists THEN NextClient(tasks[t])
                 ELSE [tasks[t] EXCEPT !.pc = "del"]
     IN /\ tasks' = Reissue(t, next)
        /\ events' = IF next.op = "idle"
                      THEN AddEvent(events, PublishEvent(tasks[t].message))
                      ELSE events
  /\ UNCHANGED <<now, timeout, ops, callbacks, owners>>
  /\ UNCHANGED storeVars
  /\ UNCHANGED lockHist
  /\ UNCHANGED busVars
  /\ UNCHANGED conn

publish_del(t) ==
  /\ tasks[t].op = "publish" /\ tasks[t].pc = "del" /\ AtHead(t)
  /\ messages' = [messages EXCEPT ![Head(tasks[t].targets)] = <<>>]
  /\ LET next == NextClient(tasks[t])
     IN /\ tasks' = Reissue(t, next)
        /\ events' = IF next.op = "idle"
                      THEN AddEvent(events, PublishEvent(tasks[t].message))
                      ELSE events
  /\ UNCHANGED <<now, timeout, ops, clients, clientChannels, channelClients,
                 lock, callbacks, owners>>
  /\ UNCHANGED lockHist
  /\ UNCHANGED busVars
  /\ UNCHANGED conn

\* emptyQueue without the check of this._server.hasConnection
emptyQueue_unchecked(p, c) ==
  /\ Count(notifications, <<p, c>>) >= 1
  /\ notifications' = notifications (-) SetToBag({<<p, c>>})
  /\ Free(p) # {}
  /\ tasks' = [tasks EXCEPT ![Lowest(Free(p))] =
                 Issue(p, NewTask("emptyQueue", c, NoChannel, "exec"))]
  /\ UNCHANGED <<now, timeout, ops, delivered>>
  /\ UNCHANGED storeVars
  /\ UNCHANGED histVars
  /\ UNCHANGED conn

\* the subscriber of process p receives a notification for client c and
\* calls emptyQueue(c)
emptyQueue(p, c) ==
  /\ Count(notifications, <<p, c>>) >= 1
  /\ notifications' = notifications (-) SetToBag({<<p, c>>})
  /\ IF c \notin Connections(p)
     THEN UNCHANGED tasks
     ELSE /\ Free(p) # {}
          /\ tasks' = [tasks EXCEPT ![Lowest(Free(p))] =
                         Issue(p, NewTask("emptyQueue", c, NoChannel, "exec"))]
  /\ UNCHANGED <<now, timeout, ops, delivered>>
  /\ UNCHANGED storeVars
  /\ UNCHANGED histVars
  /\ UNCHANGED conn

\* emptyQueue_exec with a batch that reads the queue and leaves it in place
emptyQueue_exec_kept(t) ==
  /\ tasks[t].op = "emptyQueue" /\ tasks[t].pc = "exec" /\ AtHead(t)
  /\ LET c == tasks[t].client
         jsonMessages == messages[c]
     IN delivered' = IF Len(jsonMessages) > 0
                      THEN AddEvent(delivered,
                                    <<ProcOf(t), c, parseAll(jsonMessages)>>)
                      ELSE delivered
  /\ tasks' = Reissue(t, Idle)
  /\ UNCHANGED <<now, timeout, ops, notifications>>
  /\ UNCHANGED storeVars
  /\ UNCHANGED histVars
  /\ UNCHANGED conn

\* emptyQueue_exec reading and removing the first message only
emptyQueue_exec_first(t) ==
  /\ tasks[t].op = "emptyQueue" /\ tasks[t].pc = "exec" /\ AtHead(t)
  /\ LET c == tasks[t].client
         jsonMessages == IF messages[c] = <<>> THEN <<>>
                         ELSE <<Head(messages[c])>>
     IN /\ messages' = [messages EXCEPT ![c] = IF @ = <<>> THEN <<>>
                                                ELSE Tail(@)]
        /\ delivered' = IF Len(jsonMessages) > 0
                         THEN AddEvent(delivered,
                                       <<ProcOf(t), c, parseAll(jsonMessages)>>)
                         ELSE delivered
  /\ tasks' = Reissue(t, Idle)
  /\ UNCHANGED <<now, timeout, ops, clients, clientChannels, channelClients,
                 lock, notifications>>
  /\ UNCHANGED histVars
  /\ UNCHANGED conn

\* multi.exec of lRange and del, then this._server.deliver
emptyQueue_exec(t) ==
  /\ tasks[t].op = "emptyQueue" /\ tasks[t].pc = "exec" /\ AtHead(t)
  /\ LET c == tasks[t].client
         jsonMessages == messages[c]
     IN /\ messages' = [messages EXCEPT ![c] = <<>>]
        /\ delivered' = IF Len(jsonMessages) > 0
                         THEN AddEvent(delivered,
                                       <<ProcOf(t), c, parseAll(jsonMessages)>>)
                         ELSE delivered
  /\ tasks' = Reissue(t, Idle)
  /\ UNCHANGED <<now, timeout, ops, clients, clientChannels, channelClients,
                 lock, notifications>>
  /\ UNCHANGED histVars
  /\ UNCHANGED conn

(* ----------------------------- connections ---------------------------- *)

\* the command connection of the process of slot t is ready: the commands
\* sent on it reach the store
Connected(t) == conn[ProcOf(t)].redis = "ready"

\* the call in slot t leaves _waitForInit and issues its first command;
\* _withLock and clientExists read the clock at this point
Resume(t) ==
  LET task == tasks[t]
      p == ProcOf(t)
  IN [task EXCEPT
        !.pc = task.first,
        !.first = "",
        !.time = IF task.op = "gc" THEN now ELSE @,
        !.cutoff = IF task.op = "clientExists" THEN Cutoff(p) ELSE @,
        !.seq = IF task.op = "publish" THEN Cardinality(Pending(p)) + 1 ELSE 0]

\* waitForInit without the test of this._initialized
waitForInit_unchecked(t) ==
  /\ tasks[t].pc = "waitForInit"
  /\ tasks' = [tasks EXCEPT ![t] = Resume(t)]
  /\ UNCHANGED <<now, timeout, ops>>
  /\ UNCHANGED storeVars
  /\ UNCHANGED histVars
  /\ UNCHANGED busVars
  /\ UNCHANGED conn

\* _waitForInit: the poll that finds this._initialized true
waitForInit(t) ==
  /\ tasks[t].pc = "waitForInit"
  /\ conn[ProcOf(t)].initialized
  /\ tasks' = [tasks EXCEPT ![t] = Resume(t)]
  /\ UNCHANGED <<now, timeout, ops>>
  /\ UNCHANGED storeVars
  /\ UNCHANGED histVars
  /\ UNCHANGED busVars
  /\ UNCHANGED conn

\* _initializeClients: await this._redis.connect(); the connection emits
\* 'ready' and its handler opens the gate
initializeClients_connectRedis(p) ==
  /\ conn[p].pc = "connectRedis"
  /\ conn' = [conn EXCEPT ![p].redis = "ready",
                          ![p].initialized = TRUE,
                          ![p].pc = "connectSubscriber"]
  /\ UNCHANGED <<now, timeout, tasks, ops>>
  /\ UNCHANGED storeVars
  /\ UNCHANGED histVars
  /\ UNCHANGED busVars

\* the handler of the subscriber's 'ready' event: it subscribes again if the
\* subscriptions were set up before
SubscriberReady(c) ==
  [c EXCEPT !.subscriber = "ready",
            !.ready = IF c.subscriptionsSetUp THEN "subscribeMessages" ELSE @]

\* _initializeClients: await this._subscriber.connect(); the connection
\* emits 'ready'
initializeClients_connectSubscriber(p) ==
  /\ conn[p].pc = "connectSubscriber"
  /\ conn' = [conn EXCEPT ![p] = [SubscriberReady(@) EXCEPT
                                    !.pc = "subscribeMessages"]]
  /\ UNCHANGED <<now, timeout, tasks, ops>>
  /\ UNCHANGED storeVars
  /\ UNCHANGED histVars
  /\ UNCHANGED busVars

\* _initializeClients: the two initial subscriptions, then
\* this._subscriptionsSetUp = true and this._initialized = true
initializeClients_subscribe(p) ==
  /\ conn[p].subscriber = "ready"
  /\ \/ /\ conn[p].pc = "subscribeMessages"
        /\ conn' = [conn EXCEPT ![p].subscribed = @ \cup {MessageChannel},
                                ![p].pc = "subscribeClose"]
     \/ /\ conn[p].pc = "subscribeClose"
        /\ conn' = [conn EXCEPT ![p].subscribed = @ \cup {CloseChannel},
                                ![p].subscriptionsSetUp = TRUE,
                                ![p].initialized = TRUE,
                                ![p].pc = "done"]
  /\ UNCHANGED <<now, timeout, tasks, ops>>
  /\ UNCHANGED storeVars
  /\ UNCHANGED histVars
  /\ UNCHANGED busVars

\* the command connection is lost and emits 'reconnecting'; every loss of a
\* connection counts as an operation
redis_reconnecting(p) ==
  /\ conn[p].redis = "ready"
  /\ ops < MaxOps
  /\ ops' = ops + 1
  /\ conn' = [conn EXCEPT ![p].redis = "reconnecting",
                          ![p].initialized = FALSE]
  /\ UNCHANGED <<now, timeout, tasks>>
  /\ UNCHANGED storeVars
  /\ UNCHANGED histVars
  /\ UNCHANGED busVars

\* the command connection is back and emits 'ready'
redis_ready(p) ==
  /\ conn[p].redis = "reconnecting"
  /\ conn' = [conn EXCEPT ![p].redis = "ready",
                          ![p].retries = 0,
                          ![p].delay = 0,
                          ![p].initialized = TRUE]
  /\ UNCHANGED <<now, timeout, tasks, ops>>
  /\ UNCHANGED storeVars
  /\ UNCHANGED histVars
  /\ UNCHANGED busVars

\* the subscription connection is lost, with the subscriptions the store
\* held for it, and emits 'reconnecting'; it is not lost again while the
\* handler of an earlier 'ready' event is still subscribing
subscriber_reconnecting(p) ==
  /\ conn[p].subscriber = "ready"
  /\ conn[p].ready = "done"
  /\ ops < MaxOps
  /\ ops' = ops + 1
  /\ conn' = [conn EXCEPT ![p].subscriber = "reconnecting",
                          ![p].subscribed = {},
                          ![p].initialized = FALSE]
  /\ UNCHANGED <<now, timeout, tasks>>
  /\ UNCHANGED storeVars
  /\ UNCHANGED histVars
  /\ UNCHANGED busVars

\* the subscription connection is back and emits 'ready'
subscriber_ready(p) ==
  /\ conn[p].subscriber = "reconnecting"
  /\ conn' = [conn EXCEPT ![p] = SubscriberReady(@)]
  /\ UNCHANGED <<now, timeout, tasks, ops>>
  /\ UNCHANGED storeVars
  /\ UNCHANGED histVars
  /\ UNCHANGED busVars

\* the handler of the subscriber's 'ready' event subscribes to the two
\* channels again, then this._initialized = true
subscriber_ready_subscribe(p) ==
  /\ conn[p].subscriber = "ready"
  /\ \/ /\ conn[p].ready = "subscribeMessages"
        /\ conn' = [conn EXCEPT ![p].subscribed = @ \cup {MessageChannel},
                                ![p].ready = "subscribeClose"]
     \/ /\ conn[p].ready = "subscribeClose"
        /\ conn' = [conn EXCEPT ![p].subscribed = @ \cup {CloseChannel},
                                ![p].initialized = TRUE,
                                ![p].ready = "done"]
  /\ UNCHANGED <<now, timeout, tasks, ops>>
  /\ UNCHANGED storeVars
  /\ UNCHANGED histVars
  /\ UNCHANGED busVars

\* _reconnectStrategy(retries)
reconnectStrategy(retries) ==
  IF retries > 20 THEN Error
  ELSE IF retries * 100 < 10000 THEN retries * 100 ELSE 10000

\* an attempt to reconnect the command connection fails: the strategy is
\* asked for the delay before the next attempt, and the connection is closed
\* for good if it returns an error
redis_retry(p) ==
  /\ conn[p].redis = "reconnecting"
  /\ LET retries == conn[p].retries + 1
         delay == reconnectStrategy(retries)
     IN conn' = [conn EXCEPT ![p].retries = retries,
                             ![p].delay = IF delay = Error THEN @ ELSE delay,
                             ![p].redis = IF delay = Error THEN "end" ELSE @]
  /\ UNCHANGED <<now, timeout, tasks, ops>>
  /\ UNCHANGED storeVars
  /\ UNCHANGED histVars
  /\ UNCHANGED busVars

(* --------------------------- storage errors ---------------------------- *)

\* the command that the call in slot t is waiting for fails: its promise
\* rejects and the store is left as it is
rejects(t) ==
  /\ tasks[t].op \in {"createClient", "ping", "clientExists", "subscribe",
                      "unsubscribe"}
  /\ tasks[t].pc # "rejected"
  /\ tasks' = [tasks EXCEPT ![t].pc = "rejected"]
  /\ UNCHANGED <<now, timeout, ops>>
  /\ UNCHANGED storeVars
  /\ UNCHANGED histVars
  /\ UNCHANGED busVars
  /\ UNCHANGED conn

\* the sMembers or the batch of a destroyClient(c) call fails
rejects_destroy(t, c) ==
  /\ c \in Destroying(t)
  /\ tasks[t].sub[c].pc # "rejected"
  /\ tasks' = [tasks EXCEPT ![t].sub[c].pc = "rejected"]
  /\ UNCHANGED <<now, timeout, ops>>
  /\ UNCHANGED storeVars
  /\ UNCHANGED histVars
  /\ UNCHANGED busVars
  /\ UNCHANGED conn

\* .catch of createClient: the error is logged
createClient_catch(t) ==
  /\ tasks[t].op = "createClient" /\ tasks[t].pc = "rejected"
  /\ tasks' = [tasks EXCEPT ![t] = Idle]
  /\ UNCHANGED <<now, timeout, ops>>
  /\ UNCHANGED storeVars
  /\ UNCHANGED histVars
  /\ UNCHANGED busVars
  /\ UNCHANGED conn

\* .catch of ping: the error is logged
ping_catch(t) ==
  /\ tasks[t].op = "ping" /\ tasks[t].pc = "rejected"
  /\ tasks' = [tasks EXCEPT ![t] =
                 IF @.probe THEN [@ EXCEPT !.op = "clientExists",
                                           !.pc = "zScore"]
                 ELSE Idle]
  /\ UNCHANGED <<now, timeout, ops>>
  /\ UNCHANGED storeVars
  /\ UNCHANGED histVars
  /\ UNCHANGED busVars
  /\ UNCHANGED conn

\* clientExists_catch with a callback that is handed true
clientExists_catch_true(t) ==
  /\ tasks[t].op = "clientExists" /\ tasks[t].pc = "rejected"
  /\ callbacks' = AddEvent(callbacks,
                           <<"clientExists", tasks[t].client, Reply(TRUE)>>)
  /\ tasks' = [tasks EXCEPT ![t] = Idle]
  /\ UNCHANGED <<now, timeout, ops, events, owners>>
  /\ UNCHANGED storeVars
  /\ UNCHANGED lockHist
  /\ UNCHANGED busVars
  /\ UNCHANGED conn

\* .catch of clientExists: callback.call(context, false)
clientExists_catch(t) ==
  /\ tasks[t].op = "clientExists" /\ tasks[t].pc = "rejected"
  /\ callbacks' = AddEvent(callbacks,
                           <<"clientExists", tasks[t].client, Reply(FALSE)>>)
  /\ tasks' = [tasks EXCEPT ![t] = Idle]
  /\ UNCHANGED <<now, timeout, ops, events, owners>>
  /\ UNCHANGED storeVars
  /\ UNCHANGED lockHist
  /\ UNCHANGED busVars
  /\ UNCHANGED conn

\* .catch of destroyClient: if (callback) callback.call(context)
destroyClient_catch(t, c) ==
  /\ c \in Destroying(t)
  /\ tasks[t].sub[c].pc = "rejected"
  /\ callbacks' = AddEvent(callbacks, <<"destroyClient", c, NoChannel>>)
  /\ tasks' = [tasks EXCEPT ![t] = Completed(@, c)]
  /\ UNCHANGED <<now, timeout, ops, events, owners>>
  /\ UNCHANGED storeVars
  /\ UNCHANGED lockHist
  /\ UNCHANGED busVars
  /\ UNCHANGED conn

\* .catch of subscribe: if (callback) callback.call(context)
subscribe_catch(t) ==
  /\ tasks[t].op = "subscribe" /\ tasks[t].pc = "rejected"
  /\ callbacks' = AddEvent(callbacks, <<"subscribe", tasks[t].client,
                                        tasks[t].channel>>)
  /\ tasks' = [tasks EXCEPT ![t] = Idle]
  /\ UNCHANGED <<now, timeout, ops, events, owners>>
  /\ UNCHANGED storeVars
  /\ UNCHANGED lockHist
  /\ UNCHANGED busVars
  /\ UNCHANGED conn

\* .catch of unsubscribe: if (callback) callback.call(context)
unsubscribe_catch(t) ==
  /\ tasks[t].op = "unsubscribe" /\ tasks[t].pc = "rejected"
  /\ callbacks' = AddEvent(callbacks, <<"unsubscribe", tasks[t].client,
                                        tasks[t].channel>>)
  /\ tasks' = [tasks EXCEPT ![t] = Idle]
  /\ UNCHANGED <<now, timeout, ops, events, owners>>
  /\ UNCHANGED storeVars
  /\ UNCHANGED lockHist
  /\ UNCHANGED busVars
  /\ UNCHANGED conn

(* --------------------------- specifications ---------------------------- *)

Init ==
  /\ now = StartTime
  /\ timeout = [p \in Procs |-> ServerTimeout]
  /\ clients = [c \in ClientIds |-> Absent]
  /\ clientChannels = [c \in ClientIds |-> {}]
  /\ channelClients = [ch \in Channels |-> {}]
  /\ messages = [c \in ClientIds |-> <<>>]
  /\ lock = NoLock
  /\ tasks = [s \in Slots |-> Idle]
  /\ ops = 0
  /\ events = EmptyBag
  /\ callbacks = EmptyBag
  /\ lockWriter = [proc |-> 0, won |-> FALSE]
  /\ steals = <<>>
  /\ abstains = {}
  /\ owners = [c \in ClientIds |-> 0]
  /\ notifications = EmptyBag
  /\ delivered = EmptyBag
  /\ conn = [p \in Procs |-> Established]

\* a store left behind by earlier activity: a client last pinged a lock
\* timeout ago
InitLock ==
  /\ now = StartTime
  /\ timeout = [p \in Procs |-> ServerTimeout]
  /\ clients = [c \in ClientIds |-> IF c = "c1" THEN StartTime - LongStep
                                      ELSE Absent]
  /\ clientChannels = [c \in ClientIds |-> {}]
  /\ channelClients = [ch \in Channels |-> {}]
  /\ messages = [c \in ClientIds |-> <<>>]
  /\ lock = NoLock
  /\ tasks = [s \in Slots |-> Idle]
  /\ ops = 0
  /\ events = EmptyBag
  /\ callbacks = EmptyBag
  /\ lockWriter = [proc |-> 0, won |-> FALSE]
  /\ steals = <<>>
  /\ abstains = {}
  /\ owners = [c \in ClientIds |-> 0]
  /\ notifications = EmptyBag
  /\ delivered = EmptyBag
  /\ conn = [p \in Procs |-> Established]

\* the lock protocol and the sweep
NextLock ==
  \/ Tick
  \/ \E p \in Procs : gc(p)
  \/ \E t \in Slots : withLock_setNX(t)
  \/ \E t \in Slots : withLock_get(t)
  \/ \E t \in Slots : withLock_set(t)
  \/ \E t \in Slots : gc_zRangeByScore(t)
  \/ \E t \in Slots : releaseLock_del(t)
  \/ \E t \in Slots, c \in ClientIds : destroyClient_sMembers(t, c)
  \/ \E t \in Slots, c \in ClientIds : destroyClient_exec(t, c)

SpecLock == InitLock /\ [][NextLock]_vars

\* a store left behind by earlier activity: two clients last pinged a lock
\* timeout ago, one of them subscribed to a channel and with a message queued,
\* and the record of a sweep that outlived its lease (releaseLock skipped the
\* DEL); the clock is one instant short of the horizon
InitSweep ==
  /\ now = StartTime + Instant(MaxInstant - 1)
  /\ timeout = [p \in Procs |-> ServerTimeout]
  /\ clients = [c \in ClientIds |-> now - LongStep]
  /\ clientChannels = [c \in ClientIds |-> IF c = "c1" THEN {"/a"} ELSE {}]
  /\ channelClients = [ch \in Channels |-> IF ch = "/a" THEN {"c1"} ELSE {}]
  /\ messages = [c \in ClientIds |-> IF c = "c1" THEN <<"m1">> ELSE <<>>]
  /\ lock = now - 1
  /\ tasks = [s \in Slots |-> Idle]
  /\ ops = 0
  /\ events = EmptyBag
  /\ callbacks = EmptyBag
  /\ lockWriter = [proc |-> 0, won |-> FALSE]
  /\ steals = <<>>
  /\ abstains = {}
  /\ owners = [c \in ClientIds |-> 1]
  /\ notifications = EmptyBag
  /\ delivered = EmptyBag
  /\ conn = [p \in Procs |-> Established]

\* sweeps running while clients are pinged
NextSweep ==
  \/ Tick
  \/ \E p \in Procs : gc(p)
  \/ \E t \in Slots : withLock_setNX(t)
  \/ \E t \in Slots : withLock_get(t)
  \/ \E t \in Slots : withLock_set(t)
  \/ \E t \in Slots : gc_zRangeByScore(t)
  \/ \E t \in Slots : releaseLock_del(t)
  \/ \E t \in Slots, c \in ClientIds : destroyClient_sMembers(t, c)
  \/ \E t \in Slots, c \in ClientIds : destroyClient_exec(t, c)
  \/ \E p \in Procs, c \in ClientIds : ping(p, c)
  \/ \E t \in Slots : ping_zAdd(t)

SpecSweep == InitSweep /\ [][NextSweep]_vars

\* the store of InitSweep, and a process 1 whose server has no heartbeat
\* interval that is a number
InitSkip ==
  /\ now = StartTime + Instant(MaxInstant - 1)
  /\ timeout = [p \in Procs |-> IF p = 1 THEN NotANumber ELSE ServerTimeout]
  /\ clients = [c \in ClientIds |-> now - LongStep]
  /\ clientChannels = [c \in ClientIds |-> IF c = "c1" THEN {"/a"} ELSE {}]
  /\ channelClients = [ch \in Channels |-> IF ch = "/a" THEN {"c1"} ELSE {}]
  /\ messages = [c \in ClientIds |-> IF c = "c1" THEN <<"m1">> ELSE <<>>]
  /\ lock = now - 1
  /\ tasks = [s \in Slots |-> Idle]
  /\ ops = 0
  /\ events = EmptyBag
  /\ callbacks = EmptyBag
  /\ lockWriter = [proc |-> 0, won |-> FALSE]
  /\ steals = <<>>
  /\ abstains = {}
  /\ owners = [c \in ClientIds |-> 1]
  /\ notifications = EmptyBag
  /\ delivered = EmptyBag
  /\ conn = [p \in Procs |-> Established]

SpecSkip == InitSkip /\ [][NextSweep]_vars

\* two live clients without subscriptions
InitIndex ==
  /\ now = StartTime
  /\ timeout = [p \in Procs |-> ServerTimeout]
  /\ clients = [c \in ClientIds |-> StartTime]
  /\ clientChannels = [c \in ClientIds |-> {}]
  /\ channelClients = [ch \in Channels |-> {}]
  /\ messages = [c \in ClientIds |-> <<>>]
  /\ lock = NoLock
  /\ tasks = [s \in Slots |-> Idle]
  /\ ops = 0
  /\ events = EmptyBag
  /\ callbacks = EmptyBag
  /\ lockWriter = [proc |-> 0, won |-> FALSE]
  /\ steals = <<>>
  /\ abstains = {}
  /\ owners = [c \in ClientIds |-> 1]
  /\ notifications = EmptyBag
  /\ delivered = EmptyBag
  /\ conn = [p \in Procs |-> Established]

\* the operations that write the two subscription indexes
NextIndex ==
  \/ \E p \in Procs, c \in ClientIds, ch \in Channels : subscribe(p, c, ch)
  \/ \E t \in Slots : subscribe_sAdd1(t)
  \/ \E t \in Slots : subscribe_sAdd2(t)
  \/ \E p \in Procs, c \in ClientIds, ch \in Channels : unsubscribe(p, c, ch)
  \/ \E t \in Slots : unsubscribe_sRem1(t)
  \/ \E t \in Slots : unsubscribe_sRem2(t)
  \/ \E p \in Procs, c \in ClientIds : destroyClient(p, c)
  \/ \E t \in Slots, c \in ClientIds : destroyClient_sMembers(t, c)
  \/ \E t \in Slots, c \in ClientIds : destroyClient_exec(t, c)

SpecIndex == InitIndex /\ [][NextIndex]_vars

\* the operations that write the two subscription indexes, where no call is
\* made for a client once a destroyClient of it has completed
NextEdges ==
  \/ \E p \in Procs, c \in ClientIds \ Destroyed, ch \in Channels :
       subscribe(p, c, ch)
  \/ \E t \in Slots : subscribe_sAdd1(t)
  \/ \E t \in Slots : subscribe_sAdd2(t)
  \/ \E p \in Procs, c \in ClientIds \ Destroyed, ch \in Channels :
       unsubscribe(p, c, ch)
  \/ \E t \in Slots : unsubscribe_sRem1(t)
  \/ \E t \in Slots : unsubscribe_sRem2(t)
  \/ \E p \in Procs, c \in ClientIds \ Destroyed : destroyClient(p, c)
  \/ \E t \in Slots, c \in ClientIds : destroyClient_sMembers(t, c)
  \/ \E t \in Slots, c \in ClientIds : destroyClient_exec(t, c)

SpecEdges == InitIndex /\ [][NextEdges]_vars

\* clients are created, pinged and destroyed, starting from an empty store
NextCreate ==
  \/ Tick
  \/ \E p \in Procs : createClient(p)
  \/ \E t \in Slots : createClient_zAdd(t)
  \/ \E t \in Slots : ping_zAdd(t)
  \/ \E p \in Procs, c \in ClientIds : destroyClient(p, c)
  \/ \E t \in Slots, c \in ClientIds : destroyClient_sMembers(t, c)
  \/ \E t \in Slots, c \in ClientIds : destroyClient_exec(t, c)

SpecCreate == Init /\ [][NextCreate]_vars

\* an empty store and processes whose server has, or has not, a heartbeat
\* interval that is a number
InitExists ==
  /\ now = StartTime
  /\ timeout \in [Procs -> {ServerTimeout, NotANumber}]
  /\ clients = [c \in ClientIds |-> Absent]
  /\ clientChannels = [c \in ClientIds |-> {}]
  /\ channelClients = [ch \in Channels |-> {}]
  /\ messages = [c \in ClientIds |-> <<>>]
  /\ lock = NoLock
  /\ tasks = [s \in Slots |-> Idle]
  /\ ops = 0
  /\ events = EmptyBag
  /\ callbacks = EmptyBag
  /\ lockWriter = [proc |-> 0, won |-> FALSE]
  /\ steals = <<>>
  /\ abstains = {}
  /\ owners = [c \in ClientIds |-> 0]
  /\ notifications = EmptyBag
  /\ delivered = EmptyBag
  /\ conn = [p \in Procs |-> Established]

\* clients are created and each is checked for existence by the callback that
\* receives its id; no client is destroyed
NextExists ==
  \/ Tick
  \/ \E p \in Procs : createClient_thenExists(p)
  \/ \E t \in Slots : createClient_zAdd(t)
  \/ \E t \in Slots : ping_zAdd(t)
  \/ \E t \in Slots : clientExists_zScore(t)

SpecExists == InitExists /\ [][NextExists]_vars

\* clients are pinged, destroyed and checked for existence
NextDestroy ==
  \/ \E p \in Procs, c \in ClientIds : ping(p, c)
  \/ \E t \in Slots : ping_zAdd(t)
  \/ \E p \in Procs, c \in ClientIds : destroyClient(p, c)
  \/ \E t \in Slots, c \in ClientIds : destroyClient_sMembers(t, c)
  \/ \E t \in Slots, c \in ClientIds : destroyClient_exec(t, c)
  \/ \E p \in Procs, c \in ClientIds : clientExists(p, c)
  \/ \E t \in Slots : clientExists_zScore(t)

SpecDestroy == InitSweep /\ [][NextDestroy]_vars

\* the operations that take a completion callback, with commands that fail
NextError ==
  \/ \E p \in Procs : createClient(p)
  \/ \E t \in Slots : createClient_zAdd(t)
  \/ \E t \in Slots : ping_zAdd(t)
  \/ \E p \in Procs, c \in ClientIds : clientExists(p, c)
  \/ \E t \in Slots : clientExists_zScore(t)
  \/ \E p \in Procs, c \in ClientIds : destroyClient(p, c)
  \/ \E t \in Slots, c \in ClientIds : destroyClient_sMembers(t, c)
  \/ \E t \in Slots, c \in ClientIds : destroyClient_exec(t, c)
  \/ \E p \in Procs, c \in ClientIds, ch \in Channels : subscribe(p, c, ch)
  \/ \E t \in Slots : subscribe_sAdd1(t)
  \/ \E t \in Slots : subscribe_sAdd2(t)
  \/ \E p \in Procs, c \in ClientIds, ch \in Channels : unsubscribe(p, c, ch)
  \/ \E t \in Slots : unsubscribe_sRem1(t)
  \/ \E t \in Slots : unsubscribe_sRem2(t)
  \/ \E t \in Slots : rejects(t)
  \/ \E t \in Slots, c \in ClientIds : rejects_destroy(t, c)
  \/ \E t \in Slots : createClient_catch(t)
  \/ \E t \in Slots : ping_catch(t)
  \/ \E t \in Slots : clientExists_catch(t)
  \/ \E t \in Slots, c \in ClientIds : destroyClient_catch(t, c)
  \/ \E t \in Slots : subscribe_catch(t)
  \/ \E t \in Slots : unsubscribe_catch(t)

SpecError == InitLock /\ [][NextError]_vars

\* existence checks whose read may fail, while clients are pinged and
\* destroyed
NextProbe ==
  \/ \E p \in Procs, c \in ClientIds : ping(p, c)
  \/ \E t \in Slots : ping_zAdd(t)
  \/ \E p \in Procs, c \in ClientIds : destroyClient(p, c)
  \/ \E t \in Slots, c \in ClientIds : destroyClient_sMembers(t, c)
  \/ \E t \in Slots, c \in ClientIds : destroyClient_exec(t, c)
  \/ \E p \in Procs, c \in ClientIds : clientExists(p, c)
  \/ \E t \in Slots : clientExists_zScore(t)
  \/ \E t \in Slots : rejects(t)
  \/ \E t \in Slots : clientExists_catch(t)
  \/ \E t \in Slots : ping_catch(t)

SpecProbe == InitLock /\ [][NextProbe]_vars

\* client c2 is live and subscribed to "/a", and to "/b" or not; client c1 is
\* subscribed to "/a" and was last pinged a lock timeout ago
InitPublish ==
  /\ now = StartTime
  /\ timeout = [p \in Procs |-> ServerTimeout]
  /\ clients = [c \in ClientIds |-> IF c = "c1" THEN StartTime - LongStep
                                      ELSE StartTime]
  /\ \E chans \in {{"/a"}, {"/a", "/b"}} :
       /\ clientChannels = [c \in ClientIds |-> IF c = "c1" THEN {"/a"}
                                                  ELSE chans]
       /\ channelClients = [ch \in Channels |->
                              {c \in ClientIds : c = "c1" /\ ch = "/a"}
                                \cup {c \in ClientIds :
                                        c = "c2" /\ ch \in chans}]
  /\ messages = [c \in ClientIds |-> <<>>]
  /\ lock = NoLock
  /\ tasks = [s \in Slots |-> Idle]
  /\ ops = 0
  /\ events = EmptyBag
  /\ callbacks = EmptyBag
  /\ lockWriter = [proc |-> 0, won |-> FALSE]
  /\ steals = <<>>
  /\ abstains = {}
  /\ owners = [c \in ClientIds |-> 1]
  /\ notifications = EmptyBag
  /\ delivered = EmptyBag
  /\ conn = [p \in Procs |-> Established]

\* at most one publish call is in flight
OnePublish == Cardinality({t \in Slots : tasks[t].op = "publish"}) <= 1

\* messages are published, by at most two calls at a time
NextPublish ==
  \/ \E p \in Procs, chans \in SUBSET Channels :
       OnePublish /\ publish(p, chans)
  \/ \E t \in Slots : publish_sUnion(t)
  \/ \E t \in Slots : publish_rPush(t)
  \/ \E t \in Slots : publish_publish(t)
  \/ \E t \in Slots : publish_zScore(t)
  \/ \E t \in Slots : publish_del(t)

SpecPublish == InitPublish /\ [][NextPublish]_vars

\* process 1 publishes messages, one call after the other
NextOrder ==
  \/ \E chans \in SUBSET Channels : publish(1, chans)
  \/ \E t \in Slots : publish_sUnion(t)
  \/ \E t \in Slots : publish_rPush(t)
  \/ \E t \in Slots : publish_publish(t)
  \/ \E t \in Slots : publish_zScore(t)
  \/ \E t \in Slots : publish_del(t)

SpecOrder == InitPublish /\ [][NextOrder]_vars

\* no call is in flight and every notification has been received
Quiet ==
  /\ \A t \in Slots : tasks[t].op = "idle"
  /\ notifications = EmptyBag

\* process 1 publishes one message after the other and every process drains
\* the queues it is notified of
NextDrain ==
  \/ \E chans \in SUBSET Channels : Quiet /\ publish(1, chans)
  \/ \E t \in Slots : publish_sUnion(t)
  \/ \E t \in Slots : publish_rPush(t)
  \/ \E t \in Slots : publish_publish(t)
  \/ \E t \in Slots : publish_zScore(t)
  \/ \E t \in Slots : publish_del(t)
  \/ \E p \in Procs, c \in ClientIds : emptyQueue(p, c)
  \/ \E t \in Slots : emptyQueue_exec(t)

SpecDrain == InitPublish /\ [][NextDrain]_vars

\* client c2 is live and subscribed to "/a"; client c1 has no session and no
\* subscription
InitBatch ==
  /\ now = StartTime
  /\ timeout = [p \in Procs |-> ServerTimeout]
  /\ clients = [c \in ClientIds |-> IF c = "c2" THEN StartTime ELSE Absent]
  /\ clientChannels = [c \in ClientIds |-> IF c = "c2" THEN {"/a"} ELSE {}]
  /\ channelClients = [ch \in Channels |-> IF ch = "/a" THEN {"c2"} ELSE {}]
  /\ messages = [c \in ClientIds |-> <<>>]
  /\ lock = NoLock
  /\ tasks = [s \in Slots |-> Idle]
  /\ ops = 0
  /\ events = EmptyBag
  /\ callbacks = EmptyBag
  /\ lockWriter = [proc |-> 0, won |-> FALSE]
  /\ steals = <<>>
  /\ abstains = {}
  /\ owners = [c \in ClientIds |-> 1]
  /\ notifications = EmptyBag
  /\ delivered = EmptyBag
  /\ conn = [p \in Procs |-> Established]

\* no call is in flight
NoCall == \A t \in Slots : tasks[t].op = "idle"

\* process 1 publishes one message after the other while the notifications
\* of earlier messages are still on their way; every client a message is
\* queued for is live, so that publish deletes no queue
NextBatch ==
  \/ \E chans \in SUBSET Channels : NoCall /\ publish(1, chans)
  \/ \E t \in Slots : publish_sUnion(t)
  \/ \E t \in Slots : publish_rPush(t)
  \/ \E t \in Slots : publish_publish(t)
  \/ \E t \in Slots : publish_zScore(t)
  \/ \E p \in Procs, c \in ClientIds : emptyQueue(p, c)
  \/ \E t \in Slots : emptyQueue_exec(t)

SpecBatch == InitBatch /\ [][NextBatch]_vars

\* the store of InitPublish, with c2 subscribed to both channels, and a
\* process 1 whose server has, or has not, a heartbeat interval that is a
\* number
InitDeliver ==
  /\ now = StartTime
  /\ timeout \in [Procs -> {ServerTimeout, NotANumber}]
  /\ \A p \in Procs \ {1} : timeout[p] = ServerTimeout
  /\ clients = [c \in ClientIds |-> IF c = "c1" THEN StartTime - LongStep
                                      ELSE StartTime]
  /\ clientChannels = [c \in ClientIds |-> IF c = "c1" THEN {"/a"}
                                             ELSE {"/a", "/b"}]
  /\ channelClients = [ch \in Channels |-> IF ch = "/a" THEN {"c1", "c2"}
                                             ELSE {"c2"}]
  /\ messages = [c \in ClientIds |-> <<>>]
  /\ lock = NoLock
  /\ tasks = [s \in Slots |-> Idle]
  /\ ops = 0
  /\ events = EmptyBag
  /\ callbacks = EmptyBag
  /\ lockWriter = [proc |-> 0, won |-> FALSE]
  /\ steals = <<>>
  /\ abstains = {}
  /\ owners = [c \in ClientIds |-> 1]
  /\ notifications = EmptyBag
  /\ delivered = EmptyBag
  /\ conn = [p \in Procs |-> Established]

\* every command issued is executed and its reply handled, and every
\* notification published is received: the connections stay up
Fairness ==
  /\ \A t \in Slots : WF_vars(publish_sUnion(t))
  /\ \A t \in Slots : WF_vars(publish_rPush(t))
  /\ \A t \in Slots : WF_vars(publish_publish(t))
  /\ \A t \in Slots : WF_vars(publish_zScore(t))
  /\ \A t \in Slots : WF_vars(publish_del(t))
  /\ \A t \in Slots : WF_vars(emptyQueue_exec(t))
  /\ \A p \in Procs, c \in ClientIds : WF_vars(emptyQueue(p, c))

SpecDeliver == InitDeliver /\ [][NextDrain]_vars /\ Fairness

\* two live clients; process 1 has just been constructed, the other
\* processes are connected
InitGate ==
  /\ now = StartTime
  /\ timeout = [p \in Procs |-> ServerTimeout]
  /\ clients = [c \in ClientIds |-> StartTime]
  /\ clientChannels = [c \in ClientIds |-> {}]
  /\ channelClients = [ch \in Channels |-> {}]
  /\ messages = [c \in ClientIds |-> <<>>]
  /\ lock = NoLock
  /\ tasks = [s \in Slots |-> Idle]
  /\ ops = 0
  /\ events = EmptyBag
  /\ callbacks = EmptyBag
  /\ lockWriter = [proc |-> 0, won |-> FALSE]
  /\ steals = <<>>
  /\ abstains = {}
  /\ owners = [c \in ClientIds |-> 1]
  /\ notifications = EmptyBag
  /\ delivered = EmptyBag
  /\ conn = [p \in Procs |-> IF p = 1 THEN Constructed ELSE Established]

\* process 1 pings and subscribes clients while its connections are set up,
\* lost and restored
NextGate ==
  \/ initializeClients_connectRedis(1)
  \/ initializeClients_connectSubscriber(1)
  \/ initializeClients_subscribe(1)
  \/ redis_reconnecting(1)
  \/ redis_ready(1)
  \/ subscriber_reconnecting(1)
  \/ subscriber_ready(1)
  \/ subscriber_ready_subscribe(1)
  \/ \E c \in ClientIds : ping(1, c)
  \/ \E c \in ClientIds : subscribe(1, c, "/a")
  \/ \E t \in Slots : waitForInit(t)
  \/ \E t \in Slots : Connected(t) /\ ping_zAdd(t)
  \/ \E t \in Slots : Connected(t) /\ subscribe_sAdd1(t)
  \/ \E t \in Slots : Connected(t) /\ subscribe_sAdd2(t)

\* a poll of _waitForInit that would find the gate open is made, a command
\* sent on a ready connection is executed and its reply handled, and the
\* awaits of _initializeClients and of the 'ready' handler return while the
\* subscription connection is ready
FairGate ==
  /\ \A t \in Slots : WF_vars(waitForInit(t))
  /\ \A t \in Slots : WF_vars(Connected(t) /\ ping_zAdd(t))
  /\ \A t \in Slots : WF_vars(Connected(t) /\ subscribe_sAdd1(t))
  /\ \A t \in Slots : WF_vars(Connected(t) /\ subscribe_sAdd2(t))
  /\ \A p \in Procs : WF_vars(initializeClients_connectRedis(p))
  /\ \A p \in Procs : WF_vars(initializeClients_connectSubscriber(p))
  /\ \A p \in Procs : WF_vars(initializeClients_subscribe(p))
  /\ \A p \in Procs : WF_vars(subscriber_ready_subscribe(p))

SpecGate == InitGate /\ [][NextGate]_vars /\ FairGate

\* client c1 is live and subscribed to "/a"; process 1 has just been
\* constructed, the other processes are connected
InitListen ==
  /\ now = StartTime
  /\ timeout = [p \in Procs |-> ServerTimeout]
  /\ clients = [c \in ClientIds |-> StartTime]
  /\ clientChannels = [c \in ClientIds |-> IF c = "c1" THEN {"/a"} ELSE {}]
  /\ channelClients = [ch \in Channels |-> IF ch = "/a" THEN {"c1"} ELSE {}]
  /\ messages = [c \in ClientIds |-> <<>>]
  /\ lock = NoLock
  /\ tasks = [s \in Slots |-> Idle]
  /\ ops = 0
  /\ events = EmptyBag
  /\ callbacks = EmptyBag
  /\ lockWriter = [proc |-> 0, won |-> FALSE]
  /\ steals = <<>>
  /\ abstains = {}
  /\ owners = [c \in ClientIds |-> 1]
  /\ notifications = EmptyBag
  /\ delivered = EmptyBag
  /\ conn = [p \in Procs |-> IF p = 1 THEN Constructed ELSE Established]

\* process 2 publishes to the channel of c1 while the connections of
\* process 1 are set up, lost and restored; the subscription connection is
\* lost only after _initializeClients has run to its end
NextListen ==
  \/ initializeClients_connectRedis(1)
  \/ initializeClients_connectSubscriber(1)
  \/ initializeClients_subscribe(1)
  \/ redis_reconnecting(1)
  \/ redis_ready(1)
  \/ conn[1].pc = "done" /\ subscriber_reconnecting(1)
  \/ subscriber_ready(1)
  \/ subscriber_ready_subscribe(1)
  \/ NoCall /\ publish(2, {"/a"})
  \/ \E t \in Slots : publish_sUnion(t)
  \/ \E t \in Slots : publish_rPush(t)
  \/ \E t \in Slots : publish_publish(t)
  \/ \E t \in Slots : publish_zScore(t)

SpecListen == InitListen /\ [][NextListen]_vars

\* the command connections are lost, and the attempts to reconnect them
\* fail or succeed
NextReconnect ==
  \/ \E p \in Procs : redis_reconnecting(p)
  \/ \E p \in Procs : redis_retry(p)
  \/ \E p \in Procs : redis_ready(p)

SpecReconnect == InitIndex /\ [][NextReconnect]_vars

\* at most one other gc call is in flight
OneGc == Cardinality({t \in Slots : tasks[t].op = "gc"}) <= 1

\* sweeps whose destroyClient calls succeed or fail, with at most two gc
\* calls at a time
NextRelease ==
  \/ Tick
  \/ \E p \in Procs : OneGc /\ gc(p)
  \/ \E t \in Slots : withLock_setNX(t)
  \/ \E t \in Slots : withLock_get(t)
  \/ \E t \in Slots : withLock_set(t)
  \/ \E t \in Slots : gc_zRangeByScore(t)
  \/ \E t \in Slots : releaseLock_del(t)
  \/ \E t \in Slots, c \in ClientIds : destroyClient_sMembers(t, c)
  \/ \E t \in Slots, c \in ClientIds : destroyClient_exec(t, c)
  \/ \E t \in Slots, c \in ClientIds : rejects_destroy(t, c)
  \/ \E t \in Slots, c \in ClientIds : destroyClient_catch(t, c)

SpecRelease == InitSweep /\ [][NextRelease]_vars

\* client c1 is subscribed, unsubscribed and destroyed
NextUnsub ==
  \/ \E p \in Procs, ch \in Channels : subscribe(p, "c1", ch)
  \/ \E t \in Slots : subscribe_sAdd1(t)
  \/ \E t \in Slots : subscribe_sAdd2(t)
  \/ \E p \in Procs, ch \in Channels : unsubscribe(p, "c1", ch)
  \/ \E t \in Slots : unsubscribe_sRem1(t)
  \/ \E t \in Slots : unsubscribe_sRem2(t)
  \/ \E p \in Procs : destroyClient(p, "c1")
  \/ \E t \in Slots, c \in ClientIds : destroyClient_sMembers(t, c)
  \/ \E t \in Slots, c \in ClientIds : destroyClient_exec(t, c)

SpecUnsub == InitIndex /\ [][NextUnsub]_vars

(* ------------------------- the lock protocol --------------------------- *)


\* C1: for any interleaving of gc attempts, at most one process at a time is
\* inside the sweep body (between winning the lock and calling releaseLock)
C1_OneProcessInSweep ==
  \A s, t \in Slots :
    InSweep(tasks[s]) /\ InSweep(tasks[t]) => ProcOf(s) = ProcOf(t)

StealPending(v) ==
  \E t \in Slots : tasks[t].op = "gc" /\ tasks[t].pc = "set" /\ tasks[t].seen = v

\* C2: when two or more processes observed the same expired lock value and
\* each has attempted the steal, exactly one of them won and runs the sweep
C2_ExactlyOneSteals ==
  \A v \in DOMAIN steals :
    (Cardinality(steals[v].procs) >= 2 /\ ~StealPending(v))
      => steals[v].wins = 1

\* a process that is inside the sweep body and whose record is the lock
HoldsRecord(s) ==
  /\ InSweep(tasks[s])
  /\ lockWriter.won
  /\ lockWriter.proc = ProcOf(s)
  /\ lock = Expiry(tasks[s])

\* C3: the DEL of releaseLock never deletes the lock record of another
\* process that won the lock with it and is still sweeping
C3_ReleaseDeletesOwnRecord ==
  [][\A t \in Slots :
       releaseLock_del(t)
         => ~\E s \in Slots : HoldsRecord(s) /\ ProcOf(s) # ProcOf(t)]_vars

\* C4: a process that calls gc() while the lock record is present with an
\* expiry later than the current time abstains: it never runs the sweep
C4_AbstainsIfHeldAtCall ==
  \A t \in Slots :
    (tasks[t].op = "gc" /\ tasks[t].heldAtCall)
      => ~InSweep(tasks[t]) /\ tasks[t].pc # "del"

\* C4 (amended): a gc attempt whose GET returns an expiry later than the
\* time the attempt captured abstains: the attempt ends there, it starts no
\* destroyClient and the store is left as it was
C4_AbstainsIfHeldAtRead ==
  [][\A t \in Slots :
       (/\ tasks[t].op = "gc" /\ tasks[t].pc = "get"
        /\ tasks'[t] # tasks[t]
        /\ lock # NoLock /\ tasks[t].time < lock)
         => /\ tasks' = [tasks EXCEPT ![t] = Idle]
            /\ UNCHANGED storeVars]_vars

\* a gc attempt abstained on a valid lock while a stale client was waiting
C4_Witness ==
  /\ "held" \in abstains
  /\ \E c \in ClientIds, p \in Procs :
       clients[c] >= 0 /\ clients[c] <= now - 1000 * 2 * timeout[p]

(* ------------------------------ the sweep ------------------------------ *)

\* the sweep in slot t calls releaseLock in this step
Releases(t) ==
  /\ InSweep(tasks[t])
  /\ ~InSweep(tasks'[t])

\* nothing of client c is left in the store
Gone(c) ==
  /\ clients[c] = Absent
  /\ clientChannels[c] = {}
  /\ \A ch \in Channels : c \notin channelClients[ch]
  /\ messages[c] = <<>>

\* C5: every client the sweep's query returned is, when the sweep calls
\* releaseLock, absent from the session set and from every channel's client
\* set, and has an empty channel set and no message queue
C5_SweptClientsGone ==
  [][\A t \in Slots :
       Releases(t) => \A c \in tasks[t].cands : Gone(c)']_vars

\* C6: the destroy batch a sweep runs for a client never executes while the
\* client's score is more recent than now - 2 * timeout
C6_SweepSparesFreshClients ==
  [][\A t \in Slots, c \in ClientIds :
       (destroyClient_exec(t, c) /\ tasks[t].op = "gc")
         => clients[c] <= now - 1000 * 2 * timeout[ProcOf(t)]]_vars

(* ------------------------ the subscription indexes --------------------- *)

Quiescent == \A t \in Slots : tasks[t].op = "idle"

\* C7: whenever no subscribe, unsubscribe or destroyClient call is in flight,
\* ch is in c's channel set iff c is in ch's client set
C7_IndexesAgree ==
  Quiescent
    => \A c \in ClientIds, ch \in Channels :
         ch \in clientChannels[c] <=> c \in channelClients[ch]

\* no unsubscribe or destroyClient call has been made so far
NoRemoval ==
  /\ \A t \in Slots : tasks[t].op \notin {"unsubscribe", "destroyClient"}
  /\ \A e \in BagToSet(callbacks) : e[1] \notin {"unsubscribe", "destroyClient"}

InFlight == Cardinality({t \in Slots : tasks[t].op # "idle"})

\* C8: as long as no unsubscribe or destroy has been called, the subscribe
\* calls made for a pair (c, ch) have triggered exactly one 'subscribe' event
\* in total once one of them has written the channel set (and none before),
\* and every call that is no longer in flight has invoked its callback
C8_OneSubscribeEvent ==
  NoRemoval
    => /\ \A c \in ClientIds, ch \in Channels :
            Count(events, <<"subscribe", c, ch>>)
              = IF ch \in clientChannels[c] THEN 1 ELSE 0
       /\ BagCardinality(callbacks) + InFlight = ops

\* at least two subscribe calls for one pair have completed and the pair's
\* event was triggered once
C8_Witness ==
  /\ NoRemoval
  /\ Count(callbacks, <<"subscribe", "c1", "/a">>) >= 2
  /\ Count(events, <<"subscribe", "c1", "/a">>) = 1

\* the pair of the unsubscribe call in slot t is in neither index
InNeitherIndex(t) ==
  /\ tasks[t].op = "unsubscribe"
  /\ tasks[t].channel \notin clientChannels[tasks[t].client]
  /\ tasks[t].client \notin channelClients[tasks[t].channel]

\* C9: a command of unsubscribe(c, ch) that executes while the pair is in
\* neither index leaves the indexes, the session set and the queues as they
\* are and triggers no event, and the second command invokes the callback
C9_UnsubscribeOfNoEdge ==
  [][\A t \in Slots :
       (InNeitherIndex(t) /\ tasks'[t] # tasks[t])
         => /\ UNCHANGED <<clients, clientChannels, channelClients, messages>>
            /\ events' = events
            /\ tasks[t].pc = "sRem2"
                 => callbacks' = AddEvent(callbacks,
                                          <<"unsubscribe", tasks[t].client,
                                            tasks[t].channel>>)
            /\ tasks[t].pc = "sRem1" => callbacks' = callbacks]_vars

\* an unsubscribe of a pair that was never subscribed has completed
C9_Witness ==
  /\ Count(callbacks, <<"unsubscribe", "c1", "/a">>) >= 1
  /\ Count(events, <<"subscribe", "c1", "/a">>) = 0
  /\ Count(events, <<"unsubscribe", "c1", "/a">>) = 0
  /\ \A t \in Slots : tasks[t].op \notin {"subscribe", "destroyClient"}

(* ----------------------------- createClient ---------------------------- *)

\* the create callback is invoked with id c in this step
Returns(c) ==
  Count(callbacks', <<"createClient", c, NoChannel>>)
    > Count(callbacks, <<"createClient", c, NoChannel>>)

\* C10: createClient returns an id only if the id was absent from the
\* session set when its zAdd claimed it, and of the calls that drew an id
\* at most one has returned it since the id was last removed
C10_ReturnsUnclaimedId ==
  [][\A c \in ClientIds :
       /\ Returns(c) => clients[c] = Absent
       /\ owners'[c] <= 1]_vars

\* a call whose first id was taken has retried and returned the other id,
\* and each id has been returned once
C10_Witness ==
  /\ \E t \in Slots :
       /\ tasks[t].op = "ping" /\ tasks[t].retried
       /\ Count(callbacks, <<"createClient", tasks[t].client, NoChannel>>) = 1
  /\ \A c \in ClientIds : owners[c] = 1

(* ------------------------- existence of clients ------------------------ *)

\* C11: for every identifier returned by createClient, a clientExists call
\* issued immediately after the create callback, with no destroy of that
\* client in between, reports true
C11_ExistsAfterCreate ==
  [][\A t \in Slots :
       (clientExists_zScore(t) /\ tasks[t].probe)
         => Count(callbacks', <<"clientExists", tasks[t].client, "true">>)
              = Count(callbacks, <<"clientExists", tasks[t].client, "true">>) + 1
    ]_vars

\* C12: after destroyClient(c) has completed, a clientExists(c) call reports
\* false, and a second destroyClient(c) call also invokes its callback and
\* leaves the stored state as the first destroy left it
C12_DestroyedIsGone ==
  [][\A t \in Slots :
       /\ (clientExists_zScore(t) /\ tasks[t].late)
            => Count(callbacks', <<"clientExists", tasks[t].client, "false">>)
                 = Count(callbacks, <<"clientExists", tasks[t].client, "false">>)
                   + 1
       /\ \A c \in ClientIds :
            (destroyClient_exec(t, c) /\ c \in Destroyed)
              => /\ Gone(c) /\ UNCHANGED storeVars
                 /\ Count(callbacks', <<"destroyClient", c, NoChannel>>)
                      = Count(callbacks, <<"destroyClient", c, NoChannel>>) + 1
    ]_vars

(* ------------------------ destroy and the indexes ---------------------- *)

\* a destroyClient(c) call has completed and no call for c is in flight
Settled(c) ==
  /\ c \in Destroyed
  /\ \A t \in Slots : tasks[t].client # c

\* C13: once destroyClient(c) has completed and every other operation on c
\* that was in flight has completed (no call for c being made after the
\* destroy completed), no subscription edge of c remains in
\* either index, and one 'unsubscribe' event was triggered for each channel
\* that c was subscribed to and that no unsubscribe call was made for
C13_DestroyRemovesEdges ==
  \A c \in ClientIds :
    Settled(c)
      => /\ clientChannels[c] = {}
         /\ \A ch \in Channels : c \notin channelClients[ch]
         /\ \A ch \in Channels :
              (/\ Count(events, <<"subscribe", c, ch>>) >= 1
               /\ Count(callbacks, <<"unsubscribe", c, ch>>) = 0)
                => Count(events, <<"unsubscribe", c, ch>>) = 1

(* ---------------------------- storage errors --------------------------- *)

\* the call in slot t, whose command failed, ends in this step
EndsRejected(t) ==
  \/ /\ tasks[t].op \in {"createClient", "clientExists", "subscribe",
                          "unsubscribe"}
     /\ tasks[t].pc = "rejected"
     /\ tasks'[t] # tasks[t]
  \/ /\ tasks[t].op = "destroyClient"
     /\ \E c \in DOMAIN tasks[t].sub : tasks[t].sub[c].pc = "rejected"
     /\ tasks'[t] # tasks[t]

\* C14: when a storage command fails, every operation that takes a
\* completion callback (createClient, clientExists, destroyClient, subscribe,
\* unsubscribe) still invokes that callback
C14_CallbackOnFailure ==
  [][\A t \in Slots :
       EndsRejected(t)
         => BagCardinality(callbacks') = BagCardinality(callbacks) + 1]_vars

\* the clientExists call in slot t ends in this step
ExistsEnds(t) ==
  /\ tasks[t].op = "clientExists"
  /\ tasks'[t] # tasks[t]
  /\ tasks'[t].pc # "rejected"

\* C15: a clientExists call whose read failed, or whose read finds the id
\* absent from the session set, ends by handing false to its callback
C15_FalseOnFailureOrAbsent ==
  [][\A t \in Slots :
       (ExistsEnds(t) /\ (\/ tasks[t].pc = "rejected"
                          \/ clients[tasks[t].client] = Absent))
         => callbacks' = AddEvent(callbacks,
                                  <<"clientExists", tasks[t].client,
                                    "false">>)]_vars

\* the read of a clientExists call for a live client has failed, and a call
\* for an id that is absent from the session set has reported false
C15_Witness ==
  /\ \E t \in Slots :
       /\ tasks[t].op = "clientExists" /\ tasks[t].pc = "rejected"
       /\ tasks[t].client = "c1"
       /\ Exists(clients["c1"], tasks[t].cutoff)
  /\ clients["c2"] = Absent
  /\ Count(callbacks, <<"clientExists", "c2", "false">>) >= 1

(* ------------------------------- publish ------------------------------- *)

\* the publish call in slot t receives the reply of its command in this step
PublishStep(t) ==
  /\ tasks[t].op = "publish" /\ AtHead(t)
  /\ tasks'[t] # tasks[t]

\* the clients in the client set of at least one channel of the call
Subscribers(chans) ==
  {c \in ClientIds : \E ch \in chans : c \in channelClients[ch]}

\* the number of copies of json in a queue
Copies(queue, json) == Cardinality({i \in DOMAIN queue : queue[i] = json})

\* the publish call in slot t goes on with the client after the current one,
\* or ends after the last one
Proceeds(t) ==
  IF Len(tasks[t].targets) > 1
  THEN /\ tasks'[t].op = "publish" /\ tasks'[t].pc = "rPush"
       /\ tasks'[t].targets = Tail(tasks[t].targets)
  ELSE tasks'[t] = Idle

\* C16: a publish call resolves each client that is in the client set of at
\* least one of its channels once, and no other client; it appends the
\* message once to the queue of each resolved client in turn, and appends to
\* no other queue
C16_OneCopyPerSubscriber ==
  [][\A t \in Slots :
       PublishStep(t)
         => LET task == tasks[t]
                json == stringify(task.message)
            IN /\ task.pc = "sUnion"
                    => /\ messages' = messages
                       /\ IF Subscribers(task.channels) = {}
                          THEN tasks'[t] = Idle
                          ELSE /\ tasks'[t].pc = "rPush"
                               /\ Range(tasks'[t].targets)
                                    = Subscribers(task.channels)
                               /\ Len(tasks'[t].targets)
                                    = Cardinality(Subscribers(task.channels))
               /\ task.pc = "rPush"
                    => /\ messages' = [messages EXCEPT ![Head(task.targets)] =
                                         Append(@, json)]
                       /\ tasks'[t].targets = task.targets
                       /\ tasks'[t].pc = "publish"
               /\ task.pc = "publish"
                    => /\ messages' = messages
                       /\ tasks'[t].targets = task.targets
                       /\ tasks'[t].pc = "zScore"
               /\ task.pc = "zScore"
                    => /\ messages' = messages
                       /\ \/ Proceeds(t)
                          \/ /\ tasks'[t].targets = task.targets
                             /\ tasks'[t].pc = "del"
               /\ task.pc = "del"
                    => /\ \A c \in ClientIds :
                            Copies(messages'[c], json) <= Copies(messages[c], json)
                       /\ Proceeds(t)]_vars

\* a call that publishes to both channels has appended its message to the
\* queue of c2, which is in both client sets, and the queue holds one copy
\* of it next to the message of another call
C16_Witness ==
  \E t \in Slots :
    /\ tasks[t].op = "publish" /\ tasks[t].channels = Channels
    /\ \A ch \in Channels : "c2" \in channelClients[ch]
    /\ tasks[t].pc = "zScore" /\ Head(tasks[t].targets) = "c2"
    /\ Copies(messages["c2"], stringify(tasks[t].message)) = 1
    /\ Len(messages["c2"]) >= 2

\* the publish call in slot t receives the reply of its last command: it ends
PublishEnds(t) == PublishStep(t) /\ tasks'[t] = Idle

\* the publish call in slot t triggers its 'publish' event in this step
Triggers(t) ==
  Count(events', PublishEvent(tasks[t].message))
    = Count(events, PublishEvent(tasks[t].message)) + 1

\* C17: every publish call triggers exactly one 'publish' event, carrying
\* the message's clientId, channel and data, whatever the number of resolved
\* clients (zero included): it triggers the event in the step in which it
\* ends, after its last resolved client, and in no other step
C17_OnePublishEvent ==
  [][\A t \in Slots :
       /\ PublishEnds(t)
            => /\ Triggers(t)
               /\ Count(events', PublishEvent(tasks[t].message)) = 1
               /\ Len(tasks[t].targets) <= 1
       /\ (tasks[t].op = "publish" /\ ~PublishEnds(t))
            => Count(events', PublishEvent(tasks[t].message))
                 = Count(events, PublishEvent(tasks[t].message))]_vars

\* three calls have ended and each has triggered its event once: one that
\* resolved no client, one that resolved two and one that resolved one
C17_Witness ==
  /\ ops = 3 /\ \A t \in Slots : tasks[t].op = "idle"
  /\ channelClients["/b"] = {}
  /\ \E n \in 1..3 : Count(events, PublishEvent(Message(n, {"/b"}))) = 1
  /\ \E n \in 1..3 : Count(events, PublishEvent(Message(n, {"/a"}))) = 1
  /\ BagCardinality(events) = 3

\* C19: the messages of the publish calls of one process are in the queue of
\* every client in the order of the calls (the data of a message is the
\* number of its call)
C19_AppendOrder ==
  \A c \in ClientIds :
    \A i, j \in DOMAIN messages[c] :
      i < j => parse(messages[c][i]).data < parse(messages[c][j]).data

(* ------------------------------ emptyQueue ----------------------------- *)

\* process p receives a notification for client c in this step and calls
\* emptyQueue(c)
Receives(p, c) ==
  Count(notifications', <<p, c>>) < Count(notifications, <<p, c>>)

\* C20: emptyQueue(c) called in a process that holds no connection for c
\* issues no storage command and calls deliver for nothing: the queue of c
\* and all other stored state are unchanged
C20_NoConnectionNoEffect ==
  [][\A p \in Procs, c \in ClientIds :
       (Receives(p, c) /\ c \notin Connections(p))
         => /\ UNCHANGED tasks
            /\ UNCHANGED storeVars
            /\ UNCHANGED delivered]_vars

\* process 2, which holds no connection for c1, has received the
\* notification for c1 while the queue of c1 holds a message, and process 1
\* has not received it yet
C20_Witness ==
  /\ messages["c1"] # <<>>
  /\ "c1" \notin Connections(2)
  /\ Count(notifications, <<2, "c1">>) = 0
  /\ Count(notifications, <<1, "c1">>) = 1

(* ------------------------------- delivery ------------------------------ *)

\* the message of call n is in the queue of client c
Queued(c, n) ==
  \E i \in DOMAIN messages[c] : parse(messages[c][i]).data = n

\* the message of call n was handed to this._server.deliver for client c by
\* a process that holds a connection for c
Delivered(c, n) ==
  \E d \in BagToSet(delivered) :
    /\ d[2] = c /\ c \in Connections(d[1])
    /\ \E i \in DOMAIN d[3] : d[3][i].data = n

\* C18: every message that publish appends to the queue of c2, a client that
\* stays live and stays connected to processes 1 and 2, is eventually handed
\* to deliver for c2 by one of them
C18_EventuallyDelivered ==
  \A n \in 1..MaxOps : Queued("c2", n) ~> Delivered("c2", n)

(* ------------------------------ the drain ------------------------------ *)

\* the batch of the emptyQueue call in slot t is executed in this step
Drains(t) == tasks[t].op = "emptyQueue" /\ tasks'[t].op # "emptyQueue"

\* C21: the drain of the queue of c reads and clears the whole queue in one
\* step: deliver is called once, with exactly the messages the queue held,
\* in queue order, and the queue is empty after the step; for an empty queue
\* deliver is not called; and a message in a queue, whenever it was
\* appended, stays there or is handed to deliver
C21_DrainIsAtomic ==
  [][/\ \A t \in Slots :
          Drains(t) =>
            LET c == tasks[t].client
            IN /\ c \in Connections(ProcOf(t))
               /\ messages'[c] = <<>>
               /\ delivered' =
                    IF messages[c] = <<>> THEN delivered
                    ELSE delivered
                           (+) SetToBag({<<ProcOf(t), c,
                                           parseAll(messages[c])>>})
     /\ (\A t \in Slots : ~Drains(t)) => delivered' = delivered
     /\ \A c \in ClientIds, n \in 1..MaxOps :
          Queued(c, n) => (Queued(c, n))' \/ (Delivered(c, n))']_vars

\* one call of deliver handed over two messages of c2, and a later drain of
\* c2 found the queue empty
C21_Witness ==
  /\ \E d \in BagToSet(delivered) : d[2] = "c2" /\ Len(d[3]) = 2
  /\ \E t \in Slots : /\ tasks[t].op = "emptyQueue"
                        /\ tasks[t].client = "c2"
                        /\ messages["c2"] = <<>>

(* ----------------------- publish to a dead client ---------------------- *)

\* the clients the publish call in slot t resolved
Resolved(t) == Range(sUnionReply(tasks[t].channels))

\* the liveness check of process p finds client c not live
Dead(p, c) == ~Exists(clients[c], Cutoff(p))

\* another publish call than the one in slot t has appended its message to
\* the queue of c and has not yet handled the reply of its own check
Appended(t, c) ==
  \E u \in Slots \ {t} :
    /\ tasks[u].op = "publish" /\ tasks[u].pc \in {"publish", "zScore", "del"}
    /\ Head(tasks[u].targets) = c

Skipped == ops' # ops /\ tasks' = tasks

\* the call in slot t handles the reply of a command in this step
Steps(t) == tasks[t].op # "idle" /\ tasks'[t] # tasks[t]

\* C23: in a process whose server timeout is not a number, ping and gc
\* return at once: no call of such a process ever has a command in flight,
\* a call that returns at once changes neither the lock record nor the
\* session set, the indexes and the queues, and every change of these is
\* made by the command of a call of a process whose timeout is a number
C23_NoTimeoutNoEffect ==
  [][/\ \A t \in Slots :
          timeout[ProcOf(t)] = NotANumber => tasks'[t] = Idle
     /\ Skipped => /\ UNCHANGED storeVars
                   /\ UNCHANGED histVars
     /\ storeVars' # storeVars
          => \E t \in Slots :
               Steps(t) /\ timeout[ProcOf(t)] # NotANumber]_vars

\* process 1, whose timeout is not a number, has made every call so far, and
\* the stale clients, their queues and the expired lock record are as before
C23_Witness ==
  /\ timeout[1] = NotANumber
  /\ ops = MaxOps
  /\ \A t \in Slots : tasks[t] = Idle
  /\ lockWriter.proc = 0 /\ lock # NoLock
  /\ \A c \in ClientIds :
       clients[c] = StartTime + Instant(MaxInstant - 1) - LongStep
  /\ messages["c1"] # <<>>
  /\ callbacks = EmptyBag

(* ----------------------------- the ready gate -------------------------- *)

\* the call in slot t waits in _waitForInit
Waits(t) == tasks[t].pc = "waitForInit"

\* both connections of process p are ready
Ready(p) == conn[p].redis = "ready" /\ conn[p].subscriber = "ready"

\* C24: a call made while the gate is closed waits: as long as it waits it
\* changes nothing in the store and triggers nothing, it leaves the wait
\* only in a step that finds the gate open and then issues its first
\* command, it never fails, and once both connections are ready it proceeds
\* and runs to completion unless a connection is lost again
C24_WaitsBehindGate ==
  /\ [][\A t \in Slots :
          /\ (tasks[t].op = "idle" /\ tasks'[t].op # "idle")
               => (tasks'[t].pc = "waitForInit"
                     <=> ~conn[ProcOf(t)].initialized)
          /\ (Waits(t) /\ tasks'[t] # tasks[t])
               => /\ conn[ProcOf(t)].initialized
                  /\ tasks'[t].op = tasks[t].op
                  /\ tasks'[t].pc = tasks[t].first
                  /\ UNCHANGED storeVars
                  /\ UNCHANGED histVars]_vars
  /\ \A t \in Slots :
       (Waits(t) /\ Ready(ProcOf(t)))
         ~> (tasks[t].op = "idle" \/ ~Ready(ProcOf(t)))

\* a subscribe call waits while the command connection of its process is
\* reconnecting and the subscription connection is ready
C24_Witness ==
  \E t \in Slots :
    /\ Waits(t) /\ tasks[t].op = "subscribe"
    /\ conn[ProcOf(t)].redis = "reconnecting"
    /\ conn[ProcOf(t)].subscriber = "ready"
    /\ conn[ProcOf(t)].pc = "done"

(* --------------------------- the subscriptions ------------------------- *)

\* the subscription connection of process p emits 'ready' in this step
Readies(p) == conn[p].subscriber # "ready" /\ conn'[p].subscriber = "ready"

\* the engine of process p sends a SUBSCRIBE in this step
Subscribes(p) == conn'[p].subscribed # conn[p].subscribed
                   /\ conn'[p].subscriber = "ready"

\* C25: the first 'ready' event of the subscriber starts no subscription of
\* its own, _initializeClients subscribes to the two channels once, every
\* later 'ready' event of the subscriber starts a subscription to both
\* channels, and a process whose gate is open after its subscriptions were
\* first set up receives every notification published on the message
\* channel
C25_ListensWhenOpen ==
  [][/\ \A p \in Procs :
          Readies(p)
            => conn'[p].ready = IF conn[p].subscriptionsSetUp
                                THEN "subscribeMessages" ELSE "done"
     /\ \A p \in Procs :
          (Subscribes(p) /\ ~conn[p].subscriptionsSetUp)
            => conn[p].ready = "done"
     /\ \A t \in Slots :
          (PublishStep(t) /\ tasks[t].pc = "publish")
            => \A q \in Procs :
                 (conn[q].initialized /\ conn[q].subscriptionsSetUp)
                   => Count(notifications', <<q, Head(tasks[t].targets)>>)
                        = Count(notifications, <<q, Head(tasks[t].targets)>>)
                            + 1]_vars

(* -------------------------- the reconnect policy ----------------------- *)

\* the strategy is called for the command connection of process p in this
\* step
Retries(p) == conn'[p].retries = conn[p].retries + 1

\* C26: the n-th failed attempt is followed by a delay of n * 100 ms, capped
\* at 10000 ms; the delays do not decrease and have risen to the cap of
\* 10000 ms when, after 20 attempts, the strategy returns the error that
\* ends the retries for good
C26_ReconnectPolicy ==
  [][\A p \in Procs :
       /\ Retries(p)
            => LET n == conn'[p].retries
               IN IF n <= 20
                  THEN /\ conn'[p].redis = "reconnecting"
                       /\ conn'[p].delay
                            = IF n * 100 <= 10000 THEN n * 100 ELSE 10000
                       /\ conn'[p].delay >= conn[p].delay
                  ELSE /\ conn'[p].redis = "end"
                       /\ conn[p].delay = 10000
       /\ conn[p].redis = "end" => conn'[p].redis = "end"]_vars

(* ------------------------- the release of the lock --------------------- *)

\* the completion callback of a destroyClient(c) call is invoked in this step
Fires(c) ==
  Count(callbacks', <<"destroyClient", c, NoChannel>>)
    = Count(callbacks, <<"destroyClient", c, NoChannel>>) + 1

\* the sweep in slot t calls releaseLock in this step
Released(t) == InSweep(tasks[t]) /\ ~InSweep(tasks'[t])

\* C27: a sweep whose query finds no stale client calls releaseLock in the
\* step of the query; a sweep that finds k >= 1 stale clients starts k
\* destroyClient calls, each of which leaves the sweep only by invoking its
\* completion callback, on success and on failure, and the sweep calls
\* releaseLock in the step in which the last of the k callbacks is invoked,
\* not before and not again; the lock record is deleted by a sweep only after
\* that
C27_ReleaseAfterAllCallbacks ==
  [][/\ \A t \in Slots :
       /\ (tasks[t].op = "gc" /\ tasks[t].pc = "zRangeByScore"
             /\ tasks'[t] # tasks[t])
            => LET K == Stale(tasks[t].cutoff)
               IN IF K = {} THEN Released(t)
                  ELSE /\ tasks'[t].pc = "sweeping"
                       /\ DOMAIN tasks'[t].sub = K
                       /\ callbacks' = callbacks
       /\ (tasks[t].op = "gc" /\ tasks[t].pc = "sweeping")
            => /\ \A c \in DOMAIN tasks[t].sub :
                    (Released(t) \/ c \notin DOMAIN tasks'[t].sub)
                      => /\ Fires(c)
                         /\ Released(t) <=> DOMAIN tasks[t].sub = {c}
               /\ DOMAIN tasks[t].sub # {}
       /\ (tasks[t].op = "gc" /\ tasks[t].pc = "del")
            => /\ DOMAIN tasks[t].sub = {}
               /\ tasks'[t] # tasks[t] => tasks'[t] = Idle
     /\ (lock # NoLock /\ lock' = NoLock)
          => \E t \in Slots : /\ tasks[t].op = "gc" /\ tasks[t].pc = "del"
                               /\ tasks'[t] = Idle]_vars

\* a sweep found two stale clients; the destroyClient of one has failed and
\* has invoked its callback, the other is still in flight, and the sweep has
\* not called releaseLock
C27_Witness ==
  \E t \in Slots :
    /\ tasks[t].op = "gc" /\ tasks[t].pc = "sweeping"
    /\ Cardinality(tasks[t].cands) = 2
    /\ \E c \in tasks[t].cands :
         /\ DOMAIN tasks[t].sub = tasks[t].cands \ {c}
         /\ Count(callbacks, <<"destroyClient", c, NoChannel>>) = 1
         /\ clients[c] # Absent

(* ---------------------- the events of destroyClient -------------------- *)

\* the batch of a destroyClient(c) call is executed in this step, and its
\* 'disconnect' event is triggered
Disconnects(c) ==
  Count(events', <<"disconnect", c, NoChannel>>)
    = Count(events, <<"disconnect", c, NoChannel>>) + 1

\* the number of 'unsubscribe' events triggered for (c, ch) in this step
Unsubscribed(c, ch) ==
  Count(events', <<"unsubscribe", c, ch>>)
    - Count(events, <<"unsubscribe", c, ch>>)

\* C28: destroyClient(c) triggers an 'unsubscribe' event for ch exactly when
\* its batch removed c from the client set of ch, and for no other channel
C28_UnsubscribeIffReverseRemoved ==
  [][\A c \in ClientIds, ch \in Channels :
       Disconnects(c)
         => Unsubscribed(c, ch)
              = IF c \in channelClients[ch] /\ c \notin channelClients'[ch]
                THEN 1 ELSE 0]_vars

\* C29: every destroyClient(c) call ends by triggering a 'disconnect' event
\* for c and invoking its completion callback, whether its commands succeed
\* or fail: the callback is invoked in the step that triggers the event
C29_DisconnectAndCallback ==
  [][\A c \in ClientIds : Fires(c) <=> Disconnects(c)]_vars


(* --------------------------- the stray queue --------------------------- *)

\* client c1 is live and subscribed to "/a", and a ping of c1 made by
\* process 2 has its zAdd in flight
InitStray ==
  /\ now = StartTime
  /\ timeout = [p \in Procs |-> ServerTimeout]
  /\ clients = [c \in ClientIds |-> IF c = "c1" THEN StartTime ELSE Absent]
  /\ clientChannels = [c \in ClientIds |-> IF c = "c1" THEN {"/a"} ELSE {}]
  /\ channelClients = [ch \in Channels |-> IF ch = "/a" THEN {"c1"} ELSE {}]
  /\ messages = [c \in ClientIds |-> <<>>]
  /\ lock = NoLock
  /\ tasks = [s \in Slots |->
               IF s = 2
               THEN [NewTask("ping", "c1", NoChannel, "zAdd")
                       EXCEPT !.time = StartTime]
               ELSE Idle]
  /\ ops = 0
  /\ events = EmptyBag
  /\ callbacks = EmptyBag
  /\ lockWriter = [proc |-> 0, won |-> FALSE]
  /\ steals = <<>>
  /\ abstains = {}
  /\ owners = [c \in ClientIds |-> 2]
  /\ notifications = EmptyBag
  /\ delivered = EmptyBag
  /\ conn = [p \in Procs |-> Established]

\* no publish call is in flight
Published == \A t \in Slots : tasks[t].op # "publish"

\* another call can be made after this one
NotLast == ops + 1 < MaxOps

\* process 1 publishes to "/a" and, while a publish is in flight, destroys
\* c1; the ping is in flight, and time passes between the publish calls;
\* the gc timer of process 2 goes on firing after the last call
NextStray ==
  \/ Published /\ Tick
  \/ NotLast /\ OnePublish /\ publish(1, {"/a"})
  \/ \E t \in Slots : publish_sUnion(t)
  \/ \E t \in Slots : publish_rPush(t)
  \/ \E t \in Slots : publish_publish(t)
  \/ \E t \in Slots : publish_zScore(t)
  \/ \E t \in Slots : publish_del(t)
  \/ NotLast /\ ~Published /\ destroyClient(1, "c1")
  \/ \E t \in Slots, c \in ClientIds : destroyClient_sMembers(t, c)
  \/ \E t \in Slots, c \in ClientIds : destroyClient_exec(t, c)
  \/ \E t \in Slots : ping_zAdd(t)
  \/ gc(2)
  \/ \E t \in Slots : withLock_setNX(t)
  \/ \E t \in Slots : withLock_get(t)
  \/ \E t \in Slots : withLock_set(t)
  \/ \E t \in Slots : gc_zRangeByScore(t)
  \/ \E t \in Slots : releaseLock_del(t)

\* a command that was sent is executed and its reply handled, and the
\* interval timer of process 2 goes on calling gc
FairStray ==
  /\ \A t \in Slots : WF_vars(publish_sUnion(t))
  /\ \A t \in Slots : WF_vars(publish_rPush(t))
  /\ \A t \in Slots : WF_vars(publish_publish(t))
  /\ \A t \in Slots : WF_vars(publish_zScore(t))
  /\ \A t \in Slots : WF_vars(publish_del(t))
  /\ \A t \in Slots, c \in ClientIds : WF_vars(destroyClient_sMembers(t, c))
  /\ \A t \in Slots, c \in ClientIds : WF_vars(destroyClient_exec(t, c))
  /\ \A t \in Slots : WF_vars(ping_zAdd(t))
  /\ WF_vars(gc(2))
  /\ \A t \in Slots : WF_vars(withLock_setNX(t))
  /\ \A t \in Slots : WF_vars(withLock_get(t))
  /\ \A t \in Slots : WF_vars(withLock_set(t))
  /\ \A t \in Slots : WF_vars(gc_zRangeByScore(t))
  /\ \A t \in Slots : WF_vars(releaseLock_del(t))

SpecStray == InitStray /\ [][NextStray]_vars /\ FairStray

\* a queue is left for client c, which destroyClient has destroyed
LeftBehind(c) == c \in Destroyed /\ messages[c] # <<>>

\* the sweep of a gc call that starts now lists client c
Sweepable(c) == \A p \in Procs : c \in Stale(now - 1000 * 2 * timeout[p])

\* a gc call is still to be made, and none is in flight
SweepToCome == ops < MaxOps /\ \A t \in Slots : tasks[t].op # "gc"

\* C30: a queue that is left for a destroyed client when no publish is in
\* flight belongs to a client that is back in the session set, so that a
\* later sweep lists it; and once its session is stale, the destroyClient of
\* a later sweep deletes the queue: a queue left behind is eventually
\* deleted
C30_StrayQueueIsSwept ==
  /\ [](\A c \in ClientIds :
          LeftBehind(c) /\ Published => clients[c] # Absent)
  /\ \A c \in ClientIds :
       (LeftBehind(c) /\ Sweepable(c) /\ SweepToCome) ~> (messages[c] = <<>>)

\* the sweep of a gc call is about to destroy c1, which was destroyed
\* while a publish was in flight and whose queue that publish has left
C30_Witness ==
  /\ LeftBehind("c1") /\ Published
  /\ Count(events, PublishEvent(Message(1, {"/a"})))
       + Count(events, PublishEvent(Message(2, {"/a"}))) >= 1
  /\ \E t \in Slots : /\ tasks[t].op = "gc" /\ tasks[t].pc = "sweeping"
                       /\ "c1" \in DOMAIN tasks[t].sub
                       /\ tasks[t].sub["c1"].pc = "exec"

(* --------------------------- the lock record --------------------------- *)

\* the gc call in slot t has won the lock and its releaseLock has not
\* finished: it is inside the sweep body, or the DEL of its releaseLock is
\* in flight
Holding(t) ==
  tasks[t].op = "gc" /\ tasks[t].pc \in {"zRangeByScore", "sweeping", "del"}

\* C31: whenever the lock record is present with an expiry in the future,
\* some process has won the lock and has not finished releasing it
C31_UnexpiredLockIsHeld ==
  (lock # NoLock /\ now < lock) => \E t \in Slots : Holding(t)

\* the gc call in slot t abstains: it returns from _withLock without
\* calling the sweep
Abstains(t) ==
  /\ tasks[t].op = "gc" /\ tasks[t].pc \in {"setNX", "get", "set"}
  /\ tasks'[t].op = "idle"

\* C32: none of the commands of a gc call that abstains changes the lock
\* record: the step in which the call abstains leaves the record as it was
C32_AbstainLeavesLock ==
  [][\A t \in Slots : Abstains(t) => lock' = lock]_vars

(* ------------------------ obtaining the lock --------------------------- *)

\* client c1 is live; nothing holds the lock
InitObtain ==
  /\ now = StartTime
  /\ timeout = [p \in Procs |-> ServerTimeout]
  /\ clients = [c \in ClientIds |-> IF c = "c1" THEN StartTime ELSE Absent]
  /\ clientChannels = [c \in ClientIds |-> {}]
  /\ channelClients = [ch \in Channels |-> {}]
  /\ messages = [c \in ClientIds |-> <<>>]
  /\ lock = NoLock
  /\ tasks = [s \in Slots |-> Idle]
  /\ ops = 0
  /\ events = EmptyBag
  /\ callbacks = EmptyBag
  /\ lockWriter = [proc |-> 0, won |-> FALSE]
  /\ steals = <<>>
  /\ abstains = {}
  /\ owners = [c \in ClientIds |-> 0]
  /\ notifications = EmptyBag
  /\ delivered = EmptyBag
  /\ conn = [p \in Procs |-> Established]

\* process p has no gc call in flight
NoSweepOf(p) == \A t \in Slots : ProcOf(t) = p => tasks[t].op # "gc"

\* the interval timers of processes 1 and 2 call gc, each after its last
\* call has returned, while time passes
NextObtain ==
  \/ Tick
  \/ \E p \in {1, 2} : NoSweepOf(p) /\ gc(p)
  \/ \E t \in Slots : withLock_setNX(t)
  \/ \E t \in Slots : withLock_get(t)
  \/ \E t \in Slots : withLock_set(t)
  \/ \E t \in Slots : gc_zRangeByScore(t)
  \/ \E t \in Slots : releaseLock_del(t)
  \/ \E t \in Slots, c \in ClientIds : destroyClient_sMembers(t, c)
  \/ \E t \in Slots, c \in ClientIds : destroyClient_exec(t, c)

\* the timers go on firing, and a command that was sent is executed and
\* its reply handled
FairObtain ==
  /\ \A p \in {1, 2} : WF_vars(NoSweepOf(p) /\ gc(p))
  /\ \A t \in Slots : WF_vars(withLock_setNX(t))
  /\ \A t \in Slots : WF_vars(withLock_get(t))
  /\ \A t \in Slots : WF_vars(withLock_set(t))
  /\ \A t \in Slots : WF_vars(gc_zRangeByScore(t))
  /\ \A t \in Slots : WF_vars(releaseLock_del(t))
  /\ \A t \in Slots, c \in ClientIds : WF_vars(destroyClient_sMembers(t, c))
  /\ \A t \in Slots, c \in ClientIds : WF_vars(destroyClient_exec(t, c))

SpecObtain == InitObtain /\ [][NextObtain]_vars /\ FairObtain

\* a gc call that starts now can obtain the lock: the record is absent or
\* its expiry has passed
Obtainable == lock = NoLock \/ lock <= now

\* C33: a lock record never lies further in the future than the lock
\* timeout, so that every record runs out as time passes; and whenever a
\* client is stale in the session set, the lock is free or has run out and
\* a gc call is still to come, a sweep wins the lock and destroys the
\* client
C33_StaleClientIsSwept ==
  /\ [](lock # NoLock => lock <= now + LongStep + 1)
  /\ \A c \in ClientIds :
       (Sweepable(c) /\ Obtainable /\ SweepToCome) ~> (c \in Destroyed)

\* client c1 went stale while a record that a lost steal had left was in
\* place, and a sweep that stole the record after it ran out has destroyed
\* c1
C33_Witness ==
  /\ "c1" \in Destroyed
  /\ "lost" \in abstains
  /\ \E v \in DOMAIN steals : steals[v].wins >= 1

(* -------------------------- delivery, once ----------------------------- *)

\* the number of times the message of call n occurs in the calls of
\* this._server.deliver for client c that are listed in D
RECURSIVE Handed(_, _, _)
Handed(D, c, n) ==
  IF D = {} THEN 0
  ELSE LET d == CHOOSE x \in D : TRUE
       IN (IF d[2] = c
           THEN CopiesIn(d, delivered)
                  * Cardinality({i \in DOMAIN d[3] : d[3][i].data = n})
           ELSE 0)
          + Handed(D \ {d}, c, n)

\* C34: the message of a publish call, which is appended once to the queue
\* of a client, is handed to deliver for that client at most once, whichever
\* processes drain the queue
C34_DeliveredAtMostOnce ==
  \A c \in ClientIds, n \in 1..MaxOps :
    Handed(BagToSet(delivered), c, n) <= 1

\* processes 1 and 2 hold a connection for c2, both were notified and both
\* have handed a message of c2 to deliver
C34_Witness ==
  /\ "c2" \in Connections(1) \cap Connections(2)
  /\ \E d \in BagToSet(delivered) : d[1] = 1 /\ d[2] = "c2"
  /\ \E d \in BagToSet(delivered) : d[1] = 2 /\ d[2] = "c2"

(* ----------------------- the defensive delete -------------------------- *)

\* messages are published while client c1, whose session is stale, is
\* pinged
NextRevive ==
  \/ \E p \in Procs, chans \in SUBSET Channels :
       OnePublish /\ publish(p, chans)
  \/ \E t \in Slots : publish_sUnion(t)
  \/ \E t \in Slots : publish_rPush(t)
  \/ \E t \in Slots : publish_publish(t)
  \/ \E t \in Slots : publish_zScore(t)
  \/ \E t \in Slots : publish_del(t)
  \/ \E p \in Procs : ping(p, "c1")
  \/ \E t \in Slots : ping_zAdd(t)

SpecRevive == InitPublish /\ [][NextRevive]_vars

\* the DEL that the publish call in slot t has sent for the queue of its
\* client is executed in this step
Discards(t) ==
  /\ tasks[t].op = "publish" /\ tasks[t].pc = "del"
  /\ tasks'[t].pc # "del"

\* C35: when the DEL of publish deletes the queue of a client, the score of
\* that client is not within 1.6 * timeout of the current time
C35_DiscardsOnlyDeadClients ==
  [][\A t \in Slots :
       Discards(t) =>
         ~Exists(clients[Head(tasks[t].targets)], Cutoff(ProcOf(t)))]_vars

(* --------------------- queues of absent clients ------------------------ *)

\* processes 1 and 2 publish to "/a", to which c2 is subscribed, and
\* destroy c2, and process 1, once notified, drains the queue of c2
NextAbsent ==
  \/ \E p \in {1, 2} : OnePublish /\ publish(p, {"/a"})
  \/ \E t \in Slots : publish_sUnion(t)
  \/ \E t \in Slots : publish_rPush(t)
  \/ \E t \in Slots : publish_publish(t)
  \/ \E t \in Slots : publish_zScore(t)
  \/ \E t \in Slots : publish_del(t)
  \/ \E p \in {1, 2} : destroyClient(p, "c2")
  \/ \E t \in Slots, c \in ClientIds : destroyClient_sMembers(t, c)
  \/ \E t \in Slots, c \in ClientIds : destroyClient_exec(t, c)
  \/ emptyQueue(1, "c2")
  \/ \E t \in Slots : emptyQueue_exec(t)

SpecAbsent == InitBatch /\ [][NextAbsent]_vars

\* no publish call and no destroyClient call is in flight
Calm == \A t \in Slots : tasks[t].op \notin {"publish", "destroyClient"}

\* C36: while no publish and no destroyClient call is in flight, a client
\* that is absent from the session set has no queue
C36_AbsentClientHasNoQueue ==
  Calm => \A c \in ClientIds : clients[c] = Absent => messages[c] = <<>>

\* c2 has been destroyed and is absent, a publish call has appended a
\* message to its queue and, having found c2 not live, has sent the DEL; no
\* destroyClient call is in flight
C36_Witness ==
  /\ "c2" \in Destroyed /\ clients["c2"] = Absent
  /\ messages["c2"] # <<>>
  /\ \A t \in Slots : tasks[t].op # "destroyClient"
  /\ \E t \in Slots : /\ tasks[t].op = "publish" /\ tasks[t].pc = "del"
                       /\ Head(tasks[t].targets) = "c2"

(* ------------------------- the write of ping --------------------------- *)

\* the zAdd of the ping call in slot t is executed in this step
Pings(t) ==
  /\ tasks[t].op = "ping" /\ tasks[t].pc = "zAdd"
  /\ tasks'[t] # tasks[t]

\* C37: the write of ping(c) never adds a member to the session set: if c
\* is absent when the zAdd executes, c is absent after it
C37_PingAddsNoMember ==
  [][\A t \in Slots :
       (Pings(t) /\ clients[tasks[t].client] = Absent)
         => clients'[tasks[t].client] = Absent]_vars

(* ------------------------ clients being created ------------------------ *)

\* clients are created while the timers call gc and time passes
NextInfant ==
  \/ Tick
  \/ \E p \in Procs : createClient(p)
  \/ \E t \in Slots : createClient_zAdd(t)
  \/ \E t \in Slots : ping_zAdd(t)
  \/ \E p \in Procs : OneGc /\ gc(p)
  \/ \E t \in Slots : withLock_setNX(t)
  \/ \E t \in Slots : withLock_get(t)
  \/ \E t \in Slots : withLock_set(t)
  \/ \E t \in Slots : gc_zRangeByScore(t)
  \/ \E t \in Slots : releaseLock_del(t)
  \/ \E t \in Slots, c \in ClientIds : destroyClient_sMembers(t, c)
  \/ \E t \in Slots, c \in ClientIds : destroyClient_exec(t, c)

SpecInfant == Init /\ [][NextInfant]_vars

\* createClient has inserted client c into the session set and the zAdd of
\* its first ping has not been executed
Infant(c) ==
  /\ clients[c] = 0
  /\ \E t \in Slots : /\ tasks[t].op = "ping" /\ tasks[t].pc = "zAdd"
                       /\ tasks[t].client = c

\* the zRangeByScore of the sweep in slot t is executed in this step and
\* lists client c
Selects(t, c) ==
  /\ tasks[t].op = "gc" /\ tasks[t].pc = "zRangeByScore"
  /\ tasks'[t].op = "gc" /\ tasks'[t].pc = "sweeping"
  /\ c \in tasks'[t].cands

\* C38: no sweep lists a client that createClient has inserted and whose
\* first ping has not been written
C38_SweepSparesNewClient ==
  [][\A t \in Slots, c \in ClientIds : Selects(t, c) => ~Infant(c)]_vars

(* ------------------------ the balance of events ------------------------ *)

\* no subscribe, unsubscribe or destroyClient call on client c is in flight
NoCallOn(c) ==
  \A t \in Slots :
    tasks[t].op \in {"subscribe", "unsubscribe", "destroyClient"}
      => tasks[t].client # c

\* C39: while no subscribe, unsubscribe or destroyClient call on c is in
\* flight, the 'subscribe' events triggered for (c, ch) by all processes
\* exceed the 'unsubscribe' events triggered for (c, ch) by one if ch is in
\* the channel set of c, and equal them otherwise
C39_EventsBalance ==
  \A c \in ClientIds :
    NoCallOn(c)
      => \A ch \in Channels :
           Count(events, <<"subscribe", c, ch>>)
             - Count(events, <<"unsubscribe", c, ch>>)
               = IF ch \in clientChannels[c] THEN 1 ELSE 0

\* a pair was subscribed, removed by a destroyClient or an unsubscribe that
\* triggered 'unsubscribe', and subscribed again; no call is in flight
C39_Witness ==
  /\ Quiescent
  /\ \E c \in ClientIds, ch \in Channels :
       /\ Count(events, <<"subscribe", c, ch>>) = 2
       /\ Count(events, <<"unsubscribe", c, ch>>) = 1
       /\ ch \in clientChannels[c]

(* ------------------------- the gate, when open ------------------------- *)

\* C40: the ready gate of a process is open only while its command
\* connection and its subscription connection are ready and it is
\* subscribed to the message channel and to the close channel
C40_OpenOnlyWhenReady ==
  \A p \in Procs :
    conn[p].initialized
      => /\ conn[p].redis = "ready"
         /\ conn[p].subscriber = "ready"
         /\ {MessageChannel, CloseChannel} \subseteq conn[p].subscribed
====
